---- MODULE Spec2Model ----
(***************************************************************************)
(* Lead lifecycle and work-queue model of the ServiceLine lead-generation  *)
(* pipeline: scoring completion, auto-contact, follow-up sequence, email   *)
(* jobs, delivery/engagement webhooks and the Bull queues they run on.     *)
(***************************************************************************)
EXTENDS Integers, Sequences, FiniteSets, TLC

VARIABLES
  threshold,    \* process.env.AUTO_EMAIL_THRESHOLD
  email,        \* leads.email present (per lead)
  status,       \* leads.status (per lead)
  lead_score,   \* leads.lead_score (per lead), NULL until scored
  messages,     \* messages table, in insertion order
  jobs,         \* every job ever added to a Bull queue, in insertion order
  failedHist,   \* per queue: the failed set, oldest first
  now,          \* wall clock, in days
  notes,        \* lead_notes rows written by recordFollowUpAttempt (per lead)
  nEvents,      \* number of webhook deliveries processed so far
  nOps,         \* number of operator updates so far
  nScored,      \* number of scoring completions so far (per lead)
  nBursts,      \* number of runs of failures so far
  cronTick,     \* per trigger: the schedule interval the wall clock is in
  cronFired,    \* per instance and trigger: the last interval its timer fired
  cronQueued,   \* per trigger: runs that queued jobs in the current interval
  sinceContact, \* days since leads.updated_at (per lead)
  campaigns,    \* number of rows of the campaigns table
  scraping_jobs, \* number of rows of the scraping_jobs table
  clock,        \* Date.now(), in milliseconds
  limits,       \* RateLimiter.limits: per service, requests and resetTime
  callers,      \* per caller of checkLimit: where it is, and its timer
  windows,      \* per service: start of the running window, callers let
                \* through since, and when the last caller proceeded
  maxResults,   \* HomeServiceScraper.options.maxResults
  dbUp,         \* the Supabase client is configured and answers
  results,      \* per adapter: its promise, pending or settled
  order,        \* the adapters in the order their promises settled
  stage,        \* where scrapeAllSources is: scraping, returned or thrown
  leads,        \* the leads scrapeAllSources returns
  store,        \* rows of the leads table written by saveLeads
  savers,       \* per scrape run: where its saveLeadToSupabase call is
  scoredLead,   \* the lead record handed to LeadScorer.calculateScore
  scoreResult,  \* what calculateScore returned, once it has
  writers,      \* per handler updating lead_score: its read, awaiting its write
  serial,       \* per lead: lead_score had every write applied to the value
                \* current at the time of the write
  unscored,     \* number of leads with lead_score null, the tracked one aside
  broken,       \* how many of them make scoreSingleLead throw
  trackedNull,  \* lead_score of the tracked lead is null
  batch,        \* leadIds of the batch-scoring job waiting, if any
  scrapeRuns,   \* per scrape an operator can start: the status of its
                \* scraping_jobs row, and where its scrape in the background is
  campaignRun,  \* the campaign job and the status of its campaigns row
  emailJobs,    \* the send-campaign-email jobs queued, and whether sent
  contacted     \* the targeted leads whose status is contacted

\* the leads, their messages and the queues
lifecycle == <<threshold, email, status, lead_score, messages, jobs, failedHist,
               now, notes, nEvents, nOps, nScored, nBursts>>

\* the cron scheduler
cron == <<cronTick, cronFired, cronQueued, sinceContact, campaigns, scraping_jobs>>

\* the rate limiter of the scrapers
limiter == <<clock, limits, callers, windows>>

\* one orchestration of the scraper
scrape == <<maxResults, dbUp, results, order, stage, leads, store, savers>>

\* one run of the scoring engine
scoring == <<scoredLead, scoreResult, writers, serial>>

\* work in the background: the scoring sweep, the scrapes operators start,
\* a campaign job
background == <<unscored, broken, trackedNull, batch, scrapeRuns,
                campaignRun, emailJobs, contacted>>

vars == <<lifecycle, cron, limiter, scrape, scoring, background>>

notLifecycle == <<cron, limiter, scrape, scoring, background>>


-----------------------------------------------------------------------------
(* Bounds *)

NumLeads == 1
MaxJobs == 8
MaxMsgs == 2
MaxEvents == 2
MaxOps == 1
MaxScorings == 2
MaxQueued == 2
MaxKept == 1
MaxDay == 7
MaxBursts == 1
NumInstances == 2
MaxTicks == 2
NumCallers == 2
MaxClock == 63000
MaxPerAdapter == 1
NumRuns == 2
MaxSaves == 2
NumWriters == 2
MaxWrites == 2
MaxPool == 101
NumScrapes == 2
NumTargets == 3

-----------------------------------------------------------------------------
(* Program constants *)

NULL == -1

Leads == 1..NumLeads

Queues == {"scraping", "scoring", "email", "campaign", "followup", "enrichment"}

Thresholds == {70, 80}

Totals == {75, 85}

DayMs == 24 * 60 * 60 * 1000

IntroDelay == 300000

OpenPoints == 5

ClickPoints == 10

HotGate == 80

DefaultPriority == 5

BackoffDelay == 5000

RemoveOnFail == 500

DefaultAttempts == 3

Min(a, b) == IF a < b THEN a ELSE b

\* every queue left with the default number of attempts
AttemptsDefault(q) == DefaultAttempts

\* queues[q].defaultJobOptions.attempts
Attempts(q) ==
  CASE q = "scraping" -> 2
    [] q = "email" -> 5
    [] OTHER -> DefaultAttempts

\* queues[q].defaultJobOptions.timeout, in milliseconds
Timeout(q) ==
  CASE q = "scraping" -> 600000
    [] q = "scoring" -> 60000
    [] q = "email" -> 30000
    [] q = "campaign" -> 300000
    [] q = "followup" -> 120000
    [] OTHER -> 90000

\* queues[q].process(concurrency, handler); Bull's default concurrency is 1
Concurrency(q) ==
  CASE q = "email" -> 5
    [] q = "followup" -> 3
    [] q = "enrichment" -> 2
    [] OTHER -> 1

RECURSIVE Pow2(_)
Pow2(n) == IF n = 0 THEN 1 ELSE 2 * Pow2(n - 1)

\* the delay doubled from the first retry on
BackoffDoubled(attemptsMade) == Pow2(attemptsMade) * BackoffDelay

\* backoff: { type: 'exponential', delay: 5000 }, as Bull computes it from
\* the number of attempts already made
Backoff(attemptsMade) == (Pow2(attemptsMade) - 1) * BackoffDelay

-----------------------------------------------------------------------------
(* Jobs *)

\* addJob: priority defaults to 5, delay to 0; a delayed job starts in the
\* delayed set, any other in the wait list
NewJob(q, type, lead, sequence, priority, delay) ==
  [queue |-> q, type |-> type, lead |-> lead, sequence |-> sequence,
   priority |-> IF priority = 0 THEN DefaultPriority ELSE priority,
   delay |-> delay,
   state |-> IF delay > 0 THEN "delayed" ELSE "waiting",
   attemptsMade |-> 0, pc |-> "none", failedReason |-> "none",
   finishedOn |-> 0, inStop |-> FALSE, snap |-> FALSE]

addJob(js, q, type, lead, sequence, priority, delay) ==
  Append(js, NewJob(q, type, lead, sequence, priority, delay))

JobIds == 1..Len(jobs)

RECURSIVE Size(_)
Size(h) == IF h = <<>> THEN 0 ELSE Head(h).n + Size(Tail(h))

\* Bull keeps the newest RemoveOnFail failed jobs: the oldest are evicted
\* when new failures make the failed set larger than that
RECURSIVE Evict(_, _)
Evict(r, q) ==
  LET h == r.failedHist[q]
      over == Size(h) - RemoveOnFail
  IN IF over <= 0 THEN r
     ELSE IF Head(h).id # 0
       THEN Evict([r EXCEPT !.jobs[Head(h).id].state = "removed",
                            !.failedHist[q] = Tail(h)], q)
     ELSE IF Head(h).n <= over
       THEN Evict([r EXCEPT !.failedHist[q] = Tail(h)], q)
     ELSE [r EXCEPT !.failedHist[q] =
                      <<[Head(h) EXCEPT !.n = @ - over]>> \o Tail(h)]

\* A failed attempt: retried after the backoff while attempts remain, moved
\* to the failed set otherwise
FailJob(js, fh, j, reason) ==
  LET a == js[j].attemptsMade + 1
      q == js[j].queue
  IN IF a < Attempts(q)
       THEN [jobs |-> [js EXCEPT ![j].attemptsMade = a, ![j].state = "delayed",
                                 ![j].delay = Backoff(a), ![j].pc = "none",
                                 ![j].failedReason = reason],
             failedHist |-> fh]
       ELSE Evict([jobs |-> [js EXCEPT ![j].attemptsMade = a,
                                       ![j].state = "failed",
                                       ![j].finishedOn = now, ![j].pc = "none",
                                       ![j].failedReason = reason],
                   failedHist |-> [fh EXCEPT ![q] = Append(@, [id |-> j, n |-> 1, at |-> now])]],
                  q)

CompleteJob(js, j, result) ==
  [js EXCEPT ![j].state = "completed", ![j].pc = result,
             ![j].finishedOn = now]

-----------------------------------------------------------------------------
(* Lead record updates *)

Stop == {"qualified", "converted", "lost"}

\* History of the follow-up jobs in flight: does the lead's status stay in
\* Stop for the whole execution of the job
Observe(js, l, s) ==
  [j \in DOMAIN js |->
     IF js[j].queue = "followup" /\ js[j].state = "active" /\ js[j].lead = l
     THEN [js[j] EXCEPT !.inStop = @ /\ (s \in Stop)]
     ELSE js[j]]

updateLeadStatus(st, l, s) == [st EXCEPT ![l] = s]

incrementEngagementScore(sc, l, points) ==
  [sc EXCEPT ![l] = Min((IF @ = NULL THEN 0 ELSE @) + points, 100)]

\* messages of the lead with opened_at set
Opens(l) == {m \in 1..Len(messages) :
               messages[m].lead_id = l /\ messages[m].opened_at # 0}

\* messages of the lead with clicked_at set
Clicks(l) == {m \in 1..Len(messages) :
                messages[m].lead_id = l /\ messages[m].clicked_at # 0}

cancelScheduledFollowUps(js, l) ==
  [j \in DOMAIN js |->
     IF js[j].queue = "followup" /\ js[j].state = "delayed" /\ js[j].lead = l
     THEN [js[j] EXCEPT !.state = "removed"]
     ELSE js[j]]

\* The lead and queue state after handleEmailOpened
handleEmailOpened(l) ==
  LET first == Cardinality(Opens(l)) = 1
  IN [lead_score |-> incrementEngagementScore(lead_score, l, OpenPoints),
      status |-> IF first THEN updateLeadStatus(status, l, "qualified")
                 ELSE status,
      jobs |-> IF first
               THEN addJob(jobs, "enrichment", "enrich-engaged-lead", l,
                           "none", 7, 0)
               ELSE jobs]

\* The lead and queue state after handleEmailClicked
handleEmailClicked(l) ==
  [lead_score |-> incrementEngagementScore(lead_score, l, ClickPoints),
   status |-> updateLeadStatus(status, l, "qualified"),
   jobs |-> cancelScheduledFollowUps(jobs, l)]

\* The switch of processSendGridEvent / handleMailgunWebhook on the
\* canonical event kind, followed by the update of the message row
ApplyEvent(m, kind, ts) ==
  LET l == messages[m].lead_id
      r == CASE kind = "delivered" ->
                  [lead_score |-> lead_score,
                   status |-> updateLeadStatus(status, l, "contacted"),
                   jobs |-> jobs]
             [] kind = "opened" -> handleEmailOpened(l)
             [] kind = "clicked" -> handleEmailClicked(l)
             [] OTHER ->
                  [lead_score |-> lead_score,
                   status |-> updateLeadStatus(status, l, "lost"),
                   jobs |-> jobs]
      row == CASE kind = "delivered" ->
                    [messages[m] EXCEPT !.status = "delivered", !.delivered_at = ts]
               [] kind = "opened" -> [messages[m] EXCEPT !.opened_at = ts]
               [] kind = "clicked" -> [messages[m] EXCEPT !.clicked_at = ts]
               [] kind = "bounced" -> [messages[m] EXCEPT !.status = "bounced"]
               [] OTHER -> [messages[m] EXCEPT !.status = "failed"]
  IN /\ lead_score' = r.lead_score
     /\ status' = r.status
     /\ jobs' = Observe(r.jobs, l, r.status[l])
     /\ messages' = [messages EXCEPT ![m] = row]
     /\ nEvents' = nEvents + 1
     /\ UNCHANGED <<threshold, email, failedHist, now, notes, nOps, nScored, nBursts>>
     /\ UNCHANGED notLifecycle

SendGridKind(name) ==
  CASE name = "delivered" -> "delivered"
    [] name = "open" -> "opened"
    [] name = "click" -> "clicked"
    [] name \in {"bounce", "dropped"} -> "bounced"
    [] OTHER -> "complained"

MailgunKind(name) ==
  CASE name = "failed" -> "bounced"
    [] OTHER -> name

\* The timestamp of a delivery: a new one, or that of the event of the same
\* message and kind processed before (a replay)
Stamps(m, kind) ==
  LET Stamp == CASE kind = "delivered" -> messages[m].delivered_at
                 [] kind = "opened" -> messages[m].opened_at
                 [] kind = "clicked" -> messages[m].clicked_at
                 [] OTHER -> 0
  IN {nEvents + 1} \cup ({Stamp} \ {0})

processSendGridEvent(m, name, ts) ==
  /\ nEvents < MaxEvents
  /\ SendGridKind(name) = "opened" => Len(jobs) < MaxJobs
  \* a delivery is processed only if its message id is found
  /\ messages[m].message_id # 0
  /\ ApplyEvent(m, SendGridKind(name), ts)

handleMailgunWebhook(m, name, ts) ==
  /\ nEvents < MaxEvents
  /\ MailgunKind(name) = "opened" => Len(jobs) < MaxJobs
  \* a delivery is processed only if its message id is found
  /\ messages[m].message_id # 0
  /\ ApplyEvent(m, MailgunKind(name), ts)

-----------------------------------------------------------------------------
(* Scoring completion and auto-contact *)

followUpSchedule ==
  <<[delay |-> 3, type |-> "followup-1"],
    [delay |-> 7, type |-> "followup-2"],
    [delay |-> 14, type |-> "case-study"]>>

RECURSIVE scheduleFrom(_, _, _)
scheduleFrom(js, l, i) ==
  IF i > Len(followUpSchedule) THEN js
  ELSE scheduleFrom(addJob(js, "followup", followUpSchedule[i].type, l,
                           followUpSchedule[i].type, 5,
                           followUpSchedule[i].delay * DayMs), l, i + 1)

scheduleFollowUpSequence(js, l) == scheduleFrom(js, l, 1)

\* messages rows of the lead, whatever their status
existingMessages(l) == {m \in 1..Len(messages) : messages[m].lead_id = l}

triggerHotLeadCampaign(js, l, total) ==
  IF total < threshold THEN js
  ELSE IF existingMessages(l) # {} THEN js
  ELSE scheduleFollowUpSequence(
         addJob(js, "email", "send-intro-email", l, "none", 10, IntroDelay), l)

scoreSingleLead(l, total) ==
  /\ UNCHANGED notLifecycle
  /\ Len(jobs) + 1 + Len(followUpSchedule) <= MaxJobs
  /\ nScored[l] < MaxScorings
  /\ nScored' = [nScored EXCEPT ![l] = @ + 1]
  /\ lead_score' = [lead_score EXCEPT ![l] = total]
  /\ jobs' = IF total >= HotGate THEN triggerHotLeadCampaign(jobs, l, total)
             ELSE jobs
  /\ UNCHANGED <<threshold, email, status, messages, failedHist,
                 now, notes, nEvents, nOps, nBursts>>

-----------------------------------------------------------------------------
(* Queue mechanics *)

Promote(j) ==
  /\ UNCHANGED notLifecycle
  /\ jobs[j].state = "delayed"
  \* two jobs added with their initial delays become due in the order of
  \* their due times
  /\ jobs[j].attemptsMade = 0 =>
       ~ \E k \in JobIds : /\ jobs[k].state = "delayed" /\ jobs[k].attemptsMade = 0
                           /\ k <= j /\ jobs[k].delay < jobs[j].delay
  /\ jobs' = [jobs EXCEPT ![j].state = "waiting"]
  /\ UNCHANGED <<threshold, email, status, lead_score, messages, failedHist,
                 now, notes, nEvents, nOps, nScored, nBursts>>

\* Bull hands out the waiting job with the smallest priority number, and
\* among equal priorities the one added first
Picks(j) ==
  /\ jobs[j].state = "waiting"
  /\ \A k \in {i \in JobIds : /\ jobs[i].queue = jobs[j].queue
                              /\ jobs[i].state = "waiting"} :
       \/ jobs[j].priority < jobs[k].priority
       \/ jobs[j].priority = jobs[k].priority /\ j <= k

\* a worker of the queue is free to take the job
CanDequeue(j) ==
  /\ Picks(j)
  /\ Cardinality({i \in JobIds : /\ jobs[i].queue = jobs[j].queue
                                  /\ jobs[i].state = "active"})
     < Concurrency(jobs[j].queue)

Dequeue(j) ==
  /\ UNCHANGED notLifecycle
  /\ CanDequeue(j)
  /\ jobs' = [jobs EXCEPT ![j].state = "active", ![j].pc = "start",
                          ![j].inStop = status[jobs[j].lead] \in Stop]
  /\ UNCHANGED <<threshold, email, status, lead_score, messages, failedHist,
                 now, notes, nEvents, nOps, nScored, nBursts>>

-----------------------------------------------------------------------------
(* Follow-up processor, one action per database round trip *)

FollowupAt(j, pc) ==
  /\ jobs[j].queue = "followup" /\ jobs[j].state = "active" /\ jobs[j].pc = pc

LeadFrame == <<threshold, email, status, lead_score, messages, failedHist,
               now, nEvents, nOps, nScored, nBursts>>

\* fetch the lead; converted and lost leads are skipped
FollowupFetch(j) ==
  /\ UNCHANGED notLifecycle
  /\ FollowupAt(j, "start")
  /\ jobs' = IF status[jobs[j].lead] \in {"converted", "lost"}
             THEN CompleteJob(jobs, j, "skipped")
             ELSE [jobs EXCEPT ![j].pc = "clicks"]
  /\ UNCHANGED <<LeadFrame, notes>>

\* checkIfLeadReplied, first query: a message of the lead with clicked_at
FollowupClicks(j) ==
  /\ UNCHANGED notLifecycle
  /\ FollowupAt(j, "clicks")
  /\ jobs' = IF Clicks(jobs[j].lead) # {}
             THEN CompleteJob(jobs, j, "skipped")
             ELSE [jobs EXCEPT ![j].pc = "status"]
  /\ UNCHANGED <<LeadFrame, notes>>

\* checkIfLeadReplied, second query: the lead's status is qualified
FollowupStatus(j) ==
  /\ UNCHANGED notLifecycle
  /\ FollowupAt(j, "status")
  /\ jobs' = IF status[jobs[j].lead] = "qualified"
             THEN CompleteJob(jobs, j, "skipped")
             ELSE [jobs EXCEPT ![j].pc = "queue"]
  /\ UNCHANGED <<LeadFrame, notes>>

\* queue the follow-up email and record the attempt
FollowupQueue(j) ==
  /\ UNCHANGED notLifecycle
  /\ FollowupAt(j, "queue")
  /\ Len(jobs) < MaxJobs
  /\ jobs' = CompleteJob(addJob(jobs, "email", "send-followup-email",
                                jobs[j].lead, jobs[j].sequence, 6, 0),
                         j, "success")
  /\ notes' = [notes EXCEPT ![jobs[j].lead] = @ + 1]
  /\ UNCHANGED LeadFrame

-----------------------------------------------------------------------------
(* Email processor *)

sentMessage(l, id) ==
  [lead_id |-> l, message_id |-> id, status |-> "sent",
   delivered_at |-> 0, opened_at |-> 0, clicked_at |-> 0]

EmailAt(j) ==
  /\ jobs[j].queue = "email" /\ jobs[j].state = "active"

\* the lead has no email address: the job is skipped
EmailSkip(j) ==
  /\ UNCHANGED notLifecycle
  /\ EmailAt(j)
  /\ ~ email[jobs[j].lead]
  /\ jobs' = CompleteJob(jobs, j, "skipped")
  /\ UNCHANGED <<LeadFrame, notes>>

\* the send succeeds: record the message, mark the lead contacted
EmailSent(j) ==
  /\ UNCHANGED notLifecycle
  /\ EmailAt(j)
  /\ email[jobs[j].lead]
  /\ Len(messages) < MaxMsgs
  /\ messages' = Append(messages, sentMessage(jobs[j].lead, Len(messages) + 1))
  /\ status' = updateLeadStatus(status, jobs[j].lead, "contacted")
  /\ jobs' = Observe(CompleteJob(jobs, j, "success"), jobs[j].lead, "contacted")
  /\ UNCHANGED <<threshold, email, lead_score, failedHist, now,
                 notes, nEvents, nOps, nScored, nBursts>>

\* the send throws: record a failed message and fail the attempt
EmailFailed(j) ==
  /\ UNCHANGED notLifecycle
  /\ EmailAt(j)
  /\ email[jobs[j].lead]
  /\ Len(messages) < MaxMsgs
  /\ messages' = Append(messages,
                         [lead_id |-> jobs[j].lead, message_id |-> 0,
                          status |-> "failed", delivered_at |-> 0,
                          opened_at |-> 0, clicked_at |-> 0])
  /\ LET r == FailJob(jobs, failedHist, j, "error")
     IN /\ jobs' = r.jobs
        /\ failedHist' = r.failedHist
  /\ UNCHANGED <<threshold, email, status, lead_score, now, notes,
                 nEvents, nOps, nScored, nBursts>>

-----------------------------------------------------------------------------
(* Operator *)

\* PUT /api/leads/:id with a status
OperatorUpdate(l, s) ==
  /\ UNCHANGED notLifecycle
  /\ nOps < MaxOps
  /\ status[l] # s
  /\ nOps' = nOps + 1
  /\ status' = updateLeadStatus(status, l, s)
  /\ jobs' = Observe(jobs, l, s)
  /\ UNCHANGED <<threshold, email, lead_score, messages, failedHist,
                 now, notes, nEvents, nScored, nBursts>>

-----------------------------------------------------------------------------------------------------------------------------------------------------
(* The parts of the pipeline at rest, for the runs they play no part in *)

Triggers ==
  {"daily-scraping", "weekly-scraping", "scoring", "hot-leads-campaign",
   "follow-up"}

\* nothing scheduled: the state of the scheduler where it plays no part
CronIdle ==
  /\ cronTick = [t \in Triggers |-> 1]
  /\ cronFired = [i \in 1..NumInstances |-> [t \in Triggers |-> 0]]
  /\ cronQueued = [t \in Triggers |-> 0]
  /\ sinceContact = [l \in Leads |-> 0]
  /\ campaigns = 0
  /\ scraping_jobs = 0

Services == {"google", "yelp", "yellowpages", "enrichment"}

\* the limiter where it plays no part
LimiterIdle ==
  /\ clock = 0
  /\ limits = [s \in Services |-> [requests |-> 0, resetTime |-> 0]]
  /\ callers = [c \in 1..NumCallers |-> [pc |-> "idle", service |-> "google", wake |-> 0]]
  /\ windows = [s \in Services |-> [start |-> 0, granted |-> 0, proceeded |-> NULL]]

\* the adapters in the order scrapeAllSources declares them
Adapters == <<"Google Maps", "Yelp", "Yellow Pages">>

AdapterSet == {Adapters[i] : i \in DOMAIN Adapters}

\* no orchestration running
ScrapeIdle ==
  /\ maxResults = 50
  /\ dbUp = TRUE
  /\ results = [a \in AdapterSet |-> [state |-> "pending", value |-> <<>>]]
  /\ order = <<>>
  /\ stage = "scraping"
  /\ leads = <<>>
  /\ store = <<>>
  /\ savers = [r \in 1..NumRuns |-> [pc |-> "idle", row |-> <<>>, existing |-> NULL, saves |-> 0]]

\* the social platforms the scorer looks at
Platforms == {"facebook", "instagram", "linkedin", "twitter", "youtube"}

\* a lead record with no enrichment at all: an absent flag reads as FALSE,
\* an absent number as NULL, an absent text as ""
BareLead ==
  [website |-> FALSE,
   website_quality |-> [hasWebsite |-> FALSE, hasMobileViewport |-> FALSE,
                        hasSSL |-> FALSE, loadTime |-> NULL,
                        hasMetaDescription |-> FALSE, titleLength |-> NULL,
                        hasGoogleAnalytics |-> FALSE, hasLiveChat |-> FALSE,
                        hasFacebookPixel |-> FALSE],
   seo_data |-> [indexed |-> FALSE, estimatedRanking |-> NULL,
                 organicKeywords |-> NULL, industryKeywords |-> NULL],
   industry |-> "",
   ad_presence |-> [hasGoogleAds |-> FALSE, estimatedAdSpend |-> "",
                    hasFacebookAds |-> FALSE, hasYelpAds |-> FALSE],
   rating |-> NULL, review_count |-> NULL, review_response_rate |-> NULL,
   social_presence |-> [p \in Platforms |->
                          [hasProfile |-> FALSE, engagement |-> "",
                           followersCount |-> NULL]],
   estimated_size |-> "", employee_count |-> NULL,
   address |-> "", local_competitor_count |-> NULL]

\* the scoring engine not called, nobody updating lead_score
ScoringIdle ==
  /\ scoredLead = BareLead
  /\ scoreResult = <<>>
  /\ writers = [w \in 1..NumWriters |-> [pc |-> "idle", lead |-> 1, kind |-> "",
                                   value |-> 0, seen |-> NULL, writes |-> 0]]
  /\ serial = [l \in Leads |-> NULL]

\* no sweep under way: every lead scored, no batch waiting
BackgroundIdle ==
  /\ unscored = 0
  /\ broken = 0
  /\ trackedNull = FALSE
  /\ batch = <<>>
  /\ scrapeRuns = [j \in 1..NumScrapes |-> [status |-> "none", pc |-> "none", via |-> ""]]
  /\ campaignRun = [status |-> "draft", state |-> "none", attemptsMade |-> 0]
  /\ emailJobs = <<>>
  /\ contacted = {}

-----------------------------------------------------------------------------
(* Cron scheduler: the periodic triggers of every running instance *)

\* createScrapingJobRecord, then addJob('scraping', 'daily-scraping')
runDailyScraping ==
  /\ scraping_jobs' = scraping_jobs + 1
  /\ jobs' = addJob(jobs, "scraping", "daily-scraping", 0, "none", 7, 0)
  /\ UNCHANGED campaigns

runWeeklyScraping ==
  /\ scraping_jobs' = scraping_jobs + 1
  /\ jobs' = addJob(jobs, "scraping", "weekly-scraping", 0, "none", 5, 0)
  /\ UNCHANGED campaigns

\* one batch-scoring job if some lead has no score
runScoringJob ==
  /\ jobs' = IF \E l \in Leads : lead_score[l] = NULL
             THEN addJob(jobs, "scoring", "batch-scoring", 0, "none", 7, 0)
             ELSE jobs
  /\ UNCHANGED <<campaigns, scraping_jobs>>

\* a campaign row and one campaign job if some scored lead at or above the
\* threshold is still new
runHotLeadsCampaign ==
  LET hotLeads == {l \in Leads : /\ lead_score[l] # NULL
                                 /\ lead_score[l] >= threshold
                                 /\ status[l] = "new"}
  IN /\ campaigns' = IF hotLeads # {} THEN campaigns + 1 ELSE campaigns
     /\ jobs' = IF hotLeads # {}
                THEN addJob(jobs, "campaign", "hot-leads-campaign", 0, "none", 9, 0)
                ELSE jobs
     /\ UNCHANGED scraping_jobs

\* the loop of runFollowUpCheck over the selected leads, from lead l on
RECURSIVE followUpFrom(_, _)
followUpFrom(js, l) ==
  IF l > NumLeads THEN js
  ELSE followUpFrom(
         IF status[l] = "contacted" /\ sinceContact[l] >= 3
         THEN LET days == sinceContact[l]
                  sequence == IF days >= 14 THEN "case-study"
                              ELSE IF days >= 7 THEN "followup-2"
                              ELSE "followup-1"
              IN addJob(js, "followup", sequence, l, sequence, 6, 0)
         ELSE js, l + 1)

runFollowUpCheck ==
  /\ jobs' = followUpFrom(jobs, 1)
  /\ UNCHANGED <<campaigns, scraping_jobs>>

\* The callback of trigger t runs in instance i: node-cron fires it once
\* in every interval of its schedule in every process that scheduled it.
\* A run follows one trigger, the triggers share nothing.
Fire(i, t) ==
  /\ cronFired[i][t] < cronTick[t]
  /\ \A u \in Triggers \ {t} :
       cronTick[u] = 1 /\ \A k \in 1..NumInstances : cronFired[k][u] = 0
  /\ Len(jobs) + NumLeads <= MaxJobs
  /\ cronFired' = [cronFired EXCEPT ![i][t] = cronTick[t]]
  /\ CASE t = "daily-scraping" -> runDailyScraping
       [] t = "weekly-scraping" -> runWeeklyScraping
       [] t = "scoring" -> runScoringJob
       [] t = "hot-leads-campaign" -> runHotLeadsCampaign
       [] OTHER -> runFollowUpCheck
  /\ cronQueued' = [cronQueued EXCEPT ![t] = IF jobs' # jobs THEN @ + 1 ELSE @]
  /\ UNCHANGED <<threshold, email, status, lead_score, messages, failedHist,
                 now, notes, nEvents, nOps, nScored, nBursts>>
  /\ UNCHANGED <<cronTick, sinceContact>>
  /\ UNCHANGED <<limiter, scrape, scoring, background>>

\* the wall clock enters the next interval of the schedule of trigger t;
\* the follow-up check is daily, so its leads are a day older
Boundary(t) ==
  /\ cronTick[t] < MaxTicks
  /\ \A u \in Triggers \ {t} :
       cronTick[u] = 1 /\ \A k \in 1..NumInstances : cronFired[k][u] = 0
  /\ cronTick' = [cronTick EXCEPT ![t] = @ + 1]
  /\ cronQueued' = [cronQueued EXCEPT ![t] = 0]
  /\ sinceContact' = IF t = "follow-up"
                     THEN [l \in Leads |-> sinceContact[l] + 1]
                     ELSE sinceContact
  /\ UNCHANGED <<lifecycle, cronFired, campaigns, scraping_jobs>>
  /\ UNCHANGED <<limiter, scrape, scoring, background>>

\* leads as the pipeline leaves them: not scored, scored, contacted
InitCron ==
  /\ threshold \in Thresholds
  /\ email = [l \in Leads |-> TRUE]
  /\ status \in [Leads -> {"new", "contacted"}]
  /\ lead_score \in [Leads -> {NULL} \cup Totals]
  /\ \A l \in Leads : status[l] = "contacted" => lead_score[l] # NULL
  /\ messages = <<>>
  /\ jobs = <<>>
  /\ failedHist = [q \in Queues |-> <<>>]
  /\ now = 0
  /\ notes = [l \in Leads |-> 0]
  /\ nEvents = 0
  /\ nOps = 0
  /\ nScored = [l \in Leads |-> 0]
  /\ nBursts = 0
  /\ cronTick = [t \in Triggers |-> 1]
  /\ cronFired = [i \in 1..NumInstances |-> [t \in Triggers |-> 0]]
  /\ cronQueued = [t \in Triggers |-> 0]
  /\ sinceContact \in [Leads -> {0, 3, 7, 14}]
  /\ campaigns = 0
  /\ scraping_jobs = 0
  /\ LimiterIdle
  /\ ScrapeIdle
  /\ ScoringIdle
  /\ BackgroundIdle

NextCron ==
  \/ \E i \in 1..NumInstances, t \in Triggers : Fire(i, t)
  \/ \E t \in Triggers : Boundary(t)

SpecCron == InitCron /\ [][NextCron]_vars

-----------------------------------------------------------------------------
(* Rate limiter: checkLimit of the shared limiter, one counter per service *)

\* this.limits[service].limit
Limit(service) ==
  CASE service = "google" -> 10
    [] service = "yelp" -> 15
    [] service = "yellowpages" -> 20
    [] service = "enrichment" -> 30
    [] OTHER -> 50

\* this.limits[service].window
Window == 60000

\* the sleep before checkLimit returns: Math.random() * 1000 + 500
MinDelay == 500

\* limiter.requests = 0; limiter.resetTime = now.  The window that runs is a
\* new one if the one before has lasted its 60 s, the same one otherwise.
Reset(lm, wn, s) ==
  [limits |-> [lm EXCEPT ![s] = [requests |-> 0, resetTime |-> clock]],
   windows |-> IF clock - wn[s].start >= Window
               THEN [wn EXCEPT ![s].start = clock, ![s].granted = 0]
               ELSE wn]

\* limiter.requests++: the caller is let through
Count(r, s) ==
  [limits |-> [r.limits EXCEPT ![s].requests = @ + 1],
   windows |-> [r.windows EXCEPT ![s].granted = @ + 1]]

\* checkLimit(service) up to its first await: the reset of an elapsed
\* window, then the wait for the reset of an exhausted one, or the count
\* and the delay
CheckLimit(c, s, delay) ==
  /\ callers[c].pc = "idle"
  /\ LET r == IF clock - limits[s].resetTime >= Window
              THEN Reset(limits, windows, s)
              ELSE [limits |-> limits, windows |-> windows]
     IN IF r.limits[s].requests >= Limit(s)
        THEN /\ limits' = r.limits
             /\ windows' = r.windows
             /\ callers' = [callers EXCEPT ![c] =
                  [pc |-> "waiting", service |-> s,
                   wake |-> clock + (Window - (clock - r.limits[s].resetTime))]]
        ELSE /\ limits' = Count(r, s).limits
             /\ windows' = Count(r, s).windows
             /\ callers' = [callers EXCEPT ![c] =
                  [pc |-> "delay", service |-> s, wake |-> clock + delay]]
  /\ UNCHANGED clock
  /\ UNCHANGED <<lifecycle, cron, scrape, scoring, background>>

\* the sleep of the exhausted window is over: reset, count, delay
AfterWait(c, delay) ==
  /\ callers[c].pc = "waiting"
  /\ clock >= callers[c].wake
  /\ LET s == callers[c].service
         r == Count(Reset(limits, windows, s), s)
     IN /\ limits' = r.limits
        /\ windows' = r.windows
        /\ callers' = [callers EXCEPT ![c].pc = "delay", ![c].wake = clock + delay]
  /\ UNCHANGED clock
  /\ UNCHANGED <<lifecycle, cron, scrape, scoring, background>>

\* the delay is over: checkLimit returns true and the caller proceeds
Proceed(c) ==
  /\ callers[c].pc = "delay"
  /\ clock >= callers[c].wake
  /\ callers' = [callers EXCEPT ![c].pc = "idle"]
  /\ windows' = [windows EXCEPT ![callers[c].service].proceeded = clock]
  /\ UNCHANGED <<clock, limits>>
  /\ UNCHANGED <<lifecycle, cron, scrape, scoring, background>>

\* the timers still to fire
Timers == {callers[c].wake : c \in {k \in 1..NumCallers : callers[k].pc # "idle"}}

\* time passes, up to the next timer, or by d with no caller inside
Advance(d) ==
  /\ \A t \in Timers : t > clock
  /\ clock' = IF Timers = {} THEN clock + d
              ELSE CHOOSE t \in Timers : \A u \in Timers : t <= u
  /\ clock' <= MaxClock
  /\ UNCHANGED <<limits, callers, windows>>
  /\ UNCHANGED <<lifecycle, cron, scrape, scoring, background>>

\* the limiter some time into a window of one service, fresh or with all
\* but one or all of its requests used
InitLimiter ==
  /\ threshold = HotGate
  /\ email = [l \in Leads |-> TRUE]
  /\ status = [l \in Leads |-> "new"]
  /\ lead_score = [l \in Leads |-> NULL]
  /\ messages = <<>>
  /\ jobs = <<>>
  /\ failedHist = [q \in Queues |-> <<>>]
  /\ now = 0
  /\ notes = [l \in Leads |-> 0]
  /\ nEvents = 0
  /\ nOps = 0
  /\ nScored = [l \in Leads |-> 0]
  /\ nBursts = 0
  /\ CronIdle
  /\ clock = 30000
  /\ \E s \in Services : \E n \in {0, Limit(s) - 1, Limit(s)} :
       /\ limits = [x \in Services |->
                      [requests |-> IF x = s THEN n ELSE 0, resetTime |-> 0]]
       /\ windows = [x \in Services |->
                       [start |-> 0, granted |-> IF x = s THEN n ELSE 0,
                        proceeded |-> IF x = s /\ n > 0 THEN 20000 ELSE NULL]]
  /\ callers = [c \in 1..NumCallers |-> [pc |-> "idle", service |-> "google", wake |-> 0]]
  /\ ScrapeIdle
  /\ ScoringIdle
  /\ BackgroundIdle

\* A run follows the callers of one service, the counters share nothing
NextLimiter ==
  \/ \E c \in 1..NumCallers, s \in Services, delay \in {MinDelay, 1000} :
       /\ \A x \in Services \ {s} : limits[x].requests = 0
       /\ \A k \in 1..NumCallers : callers[k].pc # "idle" => callers[k].service = s
       /\ CheckLimit(c, s, delay)
  \/ \E c \in 1..NumCallers, delay \in {MinDelay, 1000} : AfterWait(c, delay)
  \/ \E c \in 1..NumCallers : Proceed(c)
  \/ \E d \in {Window \div 2} : Advance(d)

SpecLimiter == InitLimiter /\ [][NextLimiter]_vars

-----------------------------------------------------------------------------
(* Scrape orchestration: HomeServiceScraper.scrapeAllSources *)

\* Strings are sequences of characters
toLowerCase(str) == [i \in DOMAIN str |-> IF str[i] = "A" THEN "a" ELSE str[i]]

\* the lists an adapter can return: up to n candidates, with the business
\* names and addresses as the listings print them
RECURSIVE Lists(_, _)
Lists(source, n) ==
  IF n = 0 THEN {<<>>}
  ELSE Lists(source, n - 1) \cup
       {Append(l, [name |-> name, address |-> address, source |-> source,
                   enriched |-> FALSE]) :
          l \in {x \in Lists(source, n - 1) : Len(x) = n - 1},
          name \in {<<"A", "b">>, <<"a", "b">>},
          address \in {<<"1", "M">>, <<"1", " ", "M", ".">>}}

\* the key of deduplicateLeads
DedupKey(lead) == toLowerCase(lead.name) \o <<"-">> \o toLowerCase(lead.address)

\* leads.filter(...) with the seen set
deduplicateLeads(ls) ==
  LET RECURSIVE filter(_, _)
      filter(rest, seen) ==
        IF rest = <<>> THEN <<>>
        ELSE IF DedupKey(Head(rest)) \in seen THEN filter(Tail(rest), seen)
        ELSE <<Head(rest)>>
             \o filter(Tail(rest), seen \cup {DedupKey(Head(rest))})
  IN filter(ls, {})

\* enrichLeads: every lead is kept, enriched or not
enrichLeads(ls) == [i \in DOMAIN ls |-> [ls[i] EXCEPT !.enriched = TRUE]]

\* the row saveLeads builds: an empty address is stored as null, which
\* the rows keep as the empty sequence
leadData(lead) ==
  [company_name |-> lead.name, address |-> lead.address, source |-> lead.source]

\* the select of saveLeadToSupabase: the id of the existing row, if any
\* (.single() yields no row when several match)
Lookup(st, row) ==
  LET existing == {i \in DOMAIN st : /\ st[i].company_name = row.company_name
                                     /\ row.address # <<>>
                                     /\ st[i].address = row.address}
  IN IF Cardinality(existing) = 1 THEN CHOOSE i \in existing : TRUE ELSE NULL

\* the write of saveLeadToSupabase: update the existing row, insert otherwise
Write(st, row, existing) ==
  IF existing # NULL THEN [st EXCEPT ![existing] = row] ELSE Append(st, row)

\* saveLeadToSupabase with no other writer in between
saveLeadToSupabase(st, row) == Write(st, row, Lookup(st, row))

\* saveLeads: each lead in turn, a failed save is logged and skipped
RECURSIVE saveLeads(_, _)
saveLeads(st, ls) ==
  IF ls = <<>> \/ ~dbUp THEN st
  ELSE saveLeads(saveLeadToSupabase(st, leadData(Head(ls))), Tail(ls))

\* the values of the fulfilled promises from adapter i on, in declared order
RECURSIVE Fulfilled(_)
Fulfilled(i) ==
  IF i > Len(Adapters) THEN <<>>
  ELSE (IF results[Adapters[i]].state = "fulfilled"
        THEN results[Adapters[i]].value ELSE <<>>) \o Fulfilled(i + 1)

\* Promise.all in the place of Promise.allSettled
AllOrNothing ==
  [ok |-> \A a \in AdapterSet : results[a].state = "fulfilled",
   leads |-> Fulfilled(1)]

\* Promise.allSettled: never rejects, the rejected adapters are left out
AllSettled == [ok |-> TRUE, leads |-> Fulfilled(1)]

\* the promise of adapter a settles: with the candidates found, with []
\* after an error the adapter caught, or rejected
Settle(a, state, value) ==
  /\ stage = "scraping"
  /\ results[a].state = "pending"
  /\ state = "rejected" => value = <<>>
  /\ results' = [results EXCEPT ![a] = [state |-> state, value |-> value]]
  /\ order' = Append(order, a)
  /\ UNCHANGED <<maxResults, dbUp, stage, leads, store, savers>>
  /\ UNCHANGED <<lifecycle, cron, limiter, scoring, background>>

\* the scraping processor after scrapeAllSources has returned: one
\* 'score-lead' job of priority 8 for each lead returned, with leadId the
\* id property of the lead object (undefined when it has none)
RECURSIVE queueScoring(_, _)
queueScoring(js, ls) ==
  IF ls = <<>> THEN js
  ELSE LET lead == Head(ls)
           leadId == IF "id" \in DOMAIN lead THEN lead.id ELSE NULL
       IN queueScoring(addJob(js, "scoring", "score-lead", leadId, "none", 8, 0),
                       Tail(ls))

\* scrapeAllSources after the await of the adapters: collect, deduplicate,
\* enrich, save and return, and the processor queues the scoring of what
\* was returned; an error is logged and thrown again
Finish ==
  /\ stage = "scraping"
  /\ \A a \in AdapterSet : results[a].state # "pending"
  /\ IF AllSettled.ok
     THEN LET enrichedLeads == enrichLeads(deduplicateLeads(AllSettled.leads))
          IN /\ store' = saveLeads(store, enrichedLeads)
             /\ leads' = enrichedLeads
             /\ jobs' = queueScoring(jobs, enrichedLeads)
             /\ stage' = "returned"
     ELSE /\ stage' = "thrown"
          /\ UNCHANGED <<leads, store, jobs>>
  /\ UNCHANGED <<maxResults, dbUp, results, order, savers>>
  /\ UNCHANGED <<threshold, email, status, lead_score, messages, failedHist,
                 now, notes, nEvents, nOps, nScored, nBursts>>
  /\ UNCHANGED <<cron, limiter, scoring, background>>

InitScrape ==
  /\ threshold = HotGate
  /\ email = [l \in Leads |-> TRUE]
  /\ status = [l \in Leads |-> "new"]
  /\ lead_score = [l \in Leads |-> NULL]
  /\ messages = <<>>
  /\ jobs = <<>>
  /\ failedHist = [q \in Queues |-> <<>>]
  /\ now = 0
  /\ notes = [l \in Leads |-> 0]
  /\ nEvents = 0
  /\ nOps = 0
  /\ nScored = [l \in Leads |-> 0]
  /\ nBursts = 0
  /\ CronIdle
  /\ LimiterIdle
  /\ maxResults \in {1, 2, 50}
  /\ dbUp \in BOOLEAN
  /\ results = [a \in AdapterSet |-> [state |-> "pending", value |-> <<>>]]
  /\ order = <<>>
  /\ stage = "scraping"
  /\ leads = <<>>
  /\ store = <<>>
  /\ savers = [r \in 1..NumRuns |-> [pc |-> "idle", row |-> <<>>, existing |-> NULL, saves |-> 0]]
  /\ ScoringIdle
  /\ BackgroundIdle

NextScrape ==
  \/ \E a \in AdapterSet : \E value \in Lists(a, MaxPerAdapter) :
       Settle(a, "fulfilled", value)
  \/ \E a \in AdapterSet : Settle(a, "rejected", <<>>)
  \/ Finish

SpecScrape == InitScrape /\ [][NextScrape]_vars

-----------------------------------------------------------------------------
(* Lead store: scrape runs saving leads at the same time *)

\* saveLeadToSupabase up to the answer of its select
SaveCheck(r, lead) ==
  /\ savers[r].pc = "idle"
  /\ savers[r].saves < MaxSaves
  /\ savers' = [savers EXCEPT ![r] = [pc |-> "checked", row |-> leadData(lead),
                                      existing |-> Lookup(store, leadData(lead)),
                                      saves |-> @.saves]]
  /\ UNCHANGED <<maxResults, dbUp, results, order, stage, leads, store>>
  /\ UNCHANGED <<lifecycle, cron, limiter, scoring, background>>

\* saveLeadToSupabase from there: the update or the insert it decided on
SaveWrite(r) ==
  /\ savers[r].pc = "checked"
  /\ store' = Write(store, savers[r].row, savers[r].existing)
  /\ savers' = [savers EXCEPT ![r] = [pc |-> "idle", row |-> <<>>,
                                      existing |-> NULL, saves |-> @.saves + 1]]
  /\ UNCHANGED <<maxResults, dbUp, results, order, stage, leads>>
  /\ UNCHANGED <<lifecycle, cron, limiter, scoring, background>>

InitStore ==
  /\ threshold = HotGate
  /\ email = [l \in Leads |-> TRUE]
  /\ status = [l \in Leads |-> "new"]
  /\ lead_score = [l \in Leads |-> NULL]
  /\ messages = <<>>
  /\ jobs = <<>>
  /\ failedHist = [q \in Queues |-> <<>>]
  /\ now = 0
  /\ notes = [l \in Leads |-> 0]
  /\ nEvents = 0
  /\ nOps = 0
  /\ nScored = [l \in Leads |-> 0]
  /\ nBursts = 0
  /\ CronIdle
  /\ LimiterIdle
  /\ ScrapeIdle
  /\ ScoringIdle
  /\ BackgroundIdle

NextStore ==
  \/ \E r \in 1..NumRuns, a \in AdapterSet :
       \E ls \in Lists(a, 1) : Len(ls) = 1 /\ SaveCheck(r, ls[1])
  \/ \E r \in 1..NumRuns : SaveWrite(r)

SpecStore == InitStore /\ [][NextStore]_vars

-----------------------------------------------------------------------------
(* Scoring engine: LeadScorer.calculateScore *)

Weights ==
  [websiteQuality |-> 25, seoRanking |-> 20, adPresence |-> 15,
   reviewScore |-> 15, socialPresence |-> 10, companySize |-> 10,
   marketCompetitiveness |-> 5]

\* x || fallback on a number: absent and 0 both give the fallback
Or(x, fallback) == IF x = NULL \/ x = 0 THEN fallback ELSE x

scoreWebsiteQuality(ld) ==
  LET q == ld.website_quality
  IN IF ~q.hasWebsite /\ ~ld.website THEN 100
     ELSE Min((IF ~q.hasMobileViewport THEN 20 ELSE 0)
              + (IF ~q.hasSSL THEN 15 ELSE 0)
              + (IF q.loadTime # NULL /\ q.loadTime > 3000 THEN 15 ELSE 0)
              + (IF ~q.hasMetaDescription THEN 10 ELSE 0)
              + (IF q.titleLength # NULL /\ q.titleLength < 30 THEN 10 ELSE 0)
              + (IF ~q.hasGoogleAnalytics THEN 10 ELSE 0)
              + (IF ~q.hasLiveChat THEN 10 ELSE 0)
              + (IF ~q.hasFacebookPixel THEN 10 ELSE 0), 100)

scoreSEORanking(ld) ==
  LET seoData == ld.seo_data
      ranking == Or(seoData.estimatedRanking, 50)
      organicKeywords == Or(seoData.organicKeywords, 0)
      toUpperCase(str) ==
        CASE str = "hvac" -> "HVAC"
          [] str = "Landscaping" -> "LANDSCAPING"
          [] OTHER -> str
      analyzeIndustryKeywords ==
        IF /\ toUpperCase(ld.industry) \in {"HVAC", "PLUMBING", "ROOFING", "ELECTRICAL"}
           /\ Or(seoData.industryKeywords, 0) = 0
        THEN 30 ELSE 15
  IN IF ~seoData.indexed THEN 100
     ELSE Min((IF ranking > 50 THEN 40 ELSE IF ranking > 20 THEN 25 ELSE 10)
              + (IF organicKeywords < 50 THEN 30
                 ELSE IF organicKeywords < 200 THEN 20 ELSE 10)
              + analyzeIndustryKeywords, 100)

scoreAdPresence(ld) ==
  LET ad == ld.ad_presence
  IN Min((IF ~ad.hasGoogleAds \/ ad.estimatedAdSpend = "None" THEN 80
          ELSE IF ad.estimatedAdSpend \in {"Low", "Active"} THEN 40 ELSE 20)
         + (IF ~ad.hasFacebookAds THEN 10 ELSE 0)
         + (IF ~ad.hasYelpAds THEN 10 ELSE 0), 100)

\* ratings are kept in tenths of a star
scoreReviews(ld) ==
  LET rating == Or(ld.rating, 0)
      reviewCount == Or(ld.review_count, 0)
      responseRate == Or(ld.review_response_rate, 0)
  IN Min((IF reviewCount < 10 THEN 40 ELSE IF reviewCount < 50 THEN 25
          ELSE IF reviewCount < 100 THEN 15 ELSE 5)
         + (IF rating < 30 THEN 40 ELSE IF rating < 40 THEN 30
            ELSE IF rating < 45 THEN 20 ELSE 10)
         + (IF responseRate < 30 THEN 20
            ELSE IF responseRate < 60 THEN 10 ELSE 0), 100)

scoreSocialPresence(ld) ==
  LET social == ld.social_presence
      points(d) ==
        IF ~d.hasProfile THEN 15
        ELSE IF \/ d.engagement = "low"
                \/ (d.followersCount # NULL /\ d.followersCount < 100)
             THEN 10 ELSE 5
  IN IF \A p \in Platforms : ~social[p].hasProfile THEN 100
     ELSE Min(points(social["facebook"]) + points(social["instagram"])
              + points(social["linkedin"]) + points(social["twitter"])
              + points(social["youtube"]), 100)

\* the size score before the employee count is looked at
sizeBase(size) ==
  CASE size \in {"large", "Large"} -> 90
    [] size \in {"medium", "Medium"} -> 75
    [] size \in {"small", "Small"} -> 50
    [] size \in {"startup", "Startup"} -> 30
    [] OTHER -> 40

\* the employee adjustments without the caps at 100
scoreCompanySizeUncapped(ld) ==
  sizeBase(ld.estimated_size)
  + (IF ld.employee_count > 50 THEN 10 ELSE 0)
  + (IF ld.employee_count > 100 THEN 10 ELSE 0)

scoreCompanySize(ld) ==
  LET base == sizeBase(ld.estimated_size)
      over50 == IF ld.employee_count > 50 THEN Min(base + 10, 100) ELSE base
  IN IF ld.employee_count > 100 THEN Min(over50 + 10, 100) ELSE over50

\* "Miami, FL" names one of the major cities
scoreMarketCompetitiveness(ld) ==
  LET score == IF ld.address \in {"Miami, FL"} THEN 80 ELSE 60
  IN IF ld.local_competitor_count > 50 THEN Min(score + 15, 100)
     ELSE IF ld.local_competitor_count > 20 THEN Min(score + 10, 100)
     ELSE score

\* the tiers with the first boundary exclusive
determineLeadTierAbove(score) ==
  IF score > 80 THEN "Hot Lead"
  ELSE IF score >= 60 THEN "Warm Lead"
  ELSE IF score >= 40 THEN "Cold Lead"
  ELSE "Low Priority"

determineLeadTier(score) ==
  IF score >= 80 THEN "Hot Lead"
  ELSE IF score >= 60 THEN "Warm Lead"
  ELSE IF score >= 40 THEN "Cold Lead"
  ELSE "Low Priority"

\* the component scores, Math.round of their weighted total (in hundredths
\* before the division) and its tier
calculateScore(ld) ==
  LET scores ==
        [websiteQuality |-> scoreWebsiteQuality(ld),
         seoRanking |-> scoreSEORanking(ld),
         adPresence |-> scoreAdPresence(ld),
         reviewScore |-> scoreReviews(ld),
         socialPresence |-> scoreSocialPresence(ld),
         companySize |-> scoreCompanySize(ld),
         marketCompetitiveness |-> scoreMarketCompetitiveness(ld)]
      RECURSIVE total(_)
      total(ks) ==
        IF ks = {} THEN 0
        ELSE LET k == CHOOSE x \in ks : TRUE
             IN scores[k] * Weights[k] + total(ks \ {k})
      finalScore == (total(DOMAIN Weights) + 50) \div 100
  IN [totalScore |-> finalScore, tier |-> determineLeadTier(finalScore),
      componentScores |-> scores]

\* the enrichment a lead record can carry, field by field
Enrichment ==
  [website_quality |->
     {BareLead.website_quality,
      [hasWebsite |-> TRUE, hasMobileViewport |-> TRUE, hasSSL |-> TRUE,
       loadTime |-> 1000, hasMetaDescription |-> TRUE, titleLength |-> 60,
       hasGoogleAnalytics |-> TRUE, hasLiveChat |-> TRUE,
       hasFacebookPixel |-> TRUE],
      [hasWebsite |-> TRUE, hasMobileViewport |-> FALSE, hasSSL |-> FALSE,
       loadTime |-> 5000, hasMetaDescription |-> FALSE, titleLength |-> 10,
       hasGoogleAnalytics |-> FALSE, hasLiveChat |-> FALSE,
       hasFacebookPixel |-> FALSE],
      [hasWebsite |-> TRUE, hasMobileViewport |-> TRUE, hasSSL |-> FALSE,
       loadTime |-> NULL, hasMetaDescription |-> TRUE, titleLength |-> 10,
       hasGoogleAnalytics |-> FALSE, hasLiveChat |-> FALSE,
       hasFacebookPixel |-> FALSE]},
   seo_data |->
     {BareLead.seo_data,
      [indexed |-> TRUE, estimatedRanking |-> 60, organicKeywords |-> 10,
       industryKeywords |-> 0],
      [indexed |-> TRUE, estimatedRanking |-> 5, organicKeywords |-> 300,
       industryKeywords |-> 2],
      [indexed |-> TRUE, estimatedRanking |-> NULL, organicKeywords |-> 100,
       industryKeywords |-> NULL]},
   ad_presence |->
     {BareLead.ad_presence,
      [hasGoogleAds |-> TRUE, estimatedAdSpend |-> "Low",
       hasFacebookAds |-> TRUE, hasYelpAds |-> FALSE],
      [hasGoogleAds |-> TRUE, estimatedAdSpend |-> "High",
       hasFacebookAds |-> TRUE, hasYelpAds |-> TRUE],
      [hasGoogleAds |-> TRUE, estimatedAdSpend |-> "None",
       hasFacebookAds |-> FALSE, hasYelpAds |-> FALSE]},
   reviews |->
     {[rating |-> NULL, review_count |-> NULL, review_response_rate |-> NULL],
      [rating |-> 42, review_count |-> 30, review_response_rate |-> 40],
      [rating |-> 50, review_count |-> 200, review_response_rate |-> 80]},
   social_presence |->
     {BareLead.social_presence,
      [p \in Platforms |->
         [hasProfile |-> TRUE, engagement |-> "high", followersCount |-> 5000]],
      [p \in Platforms |->
         IF p = "facebook"
         THEN [hasProfile |-> TRUE, engagement |-> "low", followersCount |-> NULL]
         ELSE IF p = "twitter"
         THEN [hasProfile |-> TRUE, engagement |-> "", followersCount |-> 20]
         ELSE BareLead.social_presence[p]]}]

\* calculateScore returns
Score ==
  /\ scoreResult = <<>>
  /\ scoreResult' = <<calculateScore(scoredLead)>>
  /\ UNCHANGED <<scoredLead, writers, serial>>
  /\ UNCHANGED <<lifecycle, cron, limiter, scrape, background>>

InitScoring ==
  /\ threshold = HotGate
  /\ email = [l \in Leads |-> TRUE]
  /\ status = [l \in Leads |-> "new"]
  /\ lead_score = [l \in Leads |-> NULL]
  /\ messages = <<>>
  /\ jobs = <<>>
  /\ failedHist = [q \in Queues |-> <<>>]
  /\ now = 0
  /\ notes = [l \in Leads |-> 0]
  /\ nEvents = 0
  /\ nOps = 0
  /\ nScored = [l \in Leads |-> 0]
  /\ nBursts = 0
  /\ CronIdle
  /\ LimiterIdle
  /\ ScrapeIdle
  /\ \E website \in BOOLEAN, q \in Enrichment.website_quality,
        seo \in Enrichment.seo_data, industry \in {"hvac", "Landscaping"},
        ad \in Enrichment.ad_presence, rv \in Enrichment.reviews,
        social \in Enrichment.social_presence,
        size \in {"", "large", "Startup"}, employees \in {NULL, 150},
        address \in {"", "Miami, FL"}, competitors \in {NULL, 30, 60} :
       scoredLead =
         [website |-> website, website_quality |-> q, seo_data |-> seo,
          industry |-> industry, ad_presence |-> ad, rating |-> rv.rating,
          review_count |-> rv.review_count,
          review_response_rate |-> rv.review_response_rate,
          social_presence |-> social, estimated_size |-> size,
          employee_count |-> employees, address |-> address,
          local_competitor_count |-> competitors]
  /\ scoreResult = <<>>
  /\ writers = [w \in 1..NumWriters |-> [pc |-> "idle", lead |-> 1, kind |-> "",
                                   value |-> 0, seen |-> NULL, writes |-> 0]]
  /\ serial = [l \in Leads |-> NULL]
  /\ BackgroundIdle

NextScoring == Score

SpecScoring == InitScoring /\ [][NextScoring]_vars

-----------------------------------------------------------------------------
(* Writers of lead_score: engagement events and scoring completions *)

\* incrementEngagementScore and scoreSingleLead up to the answer of their
\* select: an engagement event carries its points, a scoring its total
ReadLead(w, l, kind, value) ==
  /\ writers[w].pc = "idle"
  /\ writers[w].writes < MaxWrites
  /\ writers' = [writers EXCEPT ![w] = [pc |-> "read", lead |-> l, kind |-> kind,
                                        value |-> value, seen |-> lead_score[l],
                                        writes |-> @.writes]]
  /\ UNCHANGED <<scoredLead, scoreResult, serial>>
  /\ UNCHANGED <<lifecycle, cron, limiter, scrape, background>>

\* their update: the score read plus the points, capped, or the new total
WriteLead(w) ==
  LET wr == writers[w]
  IN /\ wr.pc = "read"
     /\ lead_score' = [lead_score EXCEPT ![wr.lead] =
                         IF wr.kind = "engage"
                         THEN Min(Or(wr.seen, 0) + wr.value, 100)
                         ELSE wr.value]
     /\ serial' = [serial EXCEPT ![wr.lead] =
                     IF wr.kind = "engage"
                     THEN Min(Or(lead_score[wr.lead], 0) + wr.value, 100)
                     ELSE wr.value]
     /\ writers' = [writers EXCEPT ![w] = [pc |-> "idle", lead |-> wr.lead,
                                           kind |-> "", value |-> 0,
                                           seen |-> NULL, writes |-> wr.writes + 1]]
     /\ UNCHANGED <<scoredLead, scoreResult>>
     /\ UNCHANGED <<threshold, email, status, messages, jobs, failedHist, now,
                    notes, nEvents, nOps, nScored, nBursts>>
     /\ UNCHANGED <<cron, limiter, scrape, background>>

InitWriters ==
  /\ threshold = HotGate
  /\ email = [l \in Leads |-> TRUE]
  /\ status = [l \in Leads |-> "contacted"]
  /\ lead_score \in [Leads -> {NULL, 60}]
  /\ messages = <<>>
  /\ jobs = <<>>
  /\ failedHist = [q \in Queues |-> <<>>]
  /\ now = 0
  /\ notes = [l \in Leads |-> 0]
  /\ nEvents = 0
  /\ nOps = 0
  /\ nScored = [l \in Leads |-> 0]
  /\ nBursts = 0
  /\ CronIdle
  /\ LimiterIdle
  /\ ScrapeIdle
  /\ scoredLead = BareLead
  /\ scoreResult = <<>>
  /\ writers = [w \in 1..NumWriters |-> [pc |-> "idle", lead |-> 1, kind |-> "",
                                   value |-> 0, seen |-> NULL, writes |-> 0]]
  /\ serial = lead_score
  /\ BackgroundIdle

NextWriters ==
  \/ \E w \in 1..NumWriters, l \in Leads, points \in {OpenPoints, ClickPoints} :
       ReadLead(w, l, "engage", points)
  \/ \E w \in 1..NumWriters, l \in Leads, total \in Totals :
       ReadLead(w, l, "score", total)
  \/ \E w \in 1..NumWriters : WriteLead(w)

SpecWriters == InitWriters /\ [][NextWriters]_vars

-----------------------------------------------------------------------------
(* Auto-contact: from a fresh lead to the intro email and its follow-ups *)

Init ==
  /\ threshold \in Thresholds
  /\ email \in [Leads -> BOOLEAN]
  /\ status = [l \in Leads |-> "new"]
  /\ lead_score = [l \in Leads |-> NULL]
  /\ messages = <<>>
  /\ jobs = <<>>
  /\ failedHist = [q \in Queues |-> <<>>]
  /\ now = 0
  /\ notes = [l \in Leads |-> 0]
  /\ nEvents = 0
  /\ nOps = 0
  /\ nScored = [l \in Leads |-> 0]
  /\ nBursts = 0
  /\ CronIdle
  /\ LimiterIdle
  /\ ScrapeIdle
  /\ ScoringIdle
  /\ BackgroundIdle

\* the steps of the workers on the jobs of leads that have an email address
Senders ==
  \/ \E j \in JobIds : Promote(j)
  \/ \E j \in JobIds : Dequeue(j)
  \/ \E j \in JobIds : FollowupFetch(j)
  \/ \E j \in JobIds : FollowupClicks(j)
  \/ \E j \in JobIds : FollowupStatus(j)
  \/ \E j \in JobIds : FollowupQueue(j)
  \/ \E j \in JobIds : EmailSent(j)
  \/ \E j \in JobIds : EmailFailed(j)

Workers ==
  \/ Senders
  \/ \E j \in JobIds : EmailSkip(j)

Next ==
  \/ \E l \in Leads, total \in Totals : scoreSingleLead(l, total)
  \/ Workers

Spec == Init /\ [][Next]_vars

-----------------------------------------------------------------------------
(* Engagement: an auto-contacted lead, its follow-up sequence still delayed, *)
(* and the delivery and engagement events of its messages                   *)

InitEngage ==
  /\ threshold = HotGate
  /\ email = [l \in Leads |-> TRUE]
  /\ status = [l \in Leads |-> "contacted"]
  /\ lead_score = [l \in Leads |-> 85]
  /\ messages = <<sentMessage(1, 1)>>
  /\ jobs = scheduleFollowUpSequence(
              <<[NewJob("email", "send-intro-email", 1, "none", 10, IntroDelay)
                   EXCEPT !.state = "completed", !.pc = "success"]>>, 1)
  /\ failedHist = [q \in Queues |-> <<>>]
  /\ now = 0
  /\ notes = [l \in Leads |-> 0]
  /\ nEvents = 0
  /\ nOps = 0
  /\ nScored = [l \in Leads |-> 1]
  /\ nBursts = 0
  /\ CronIdle
  /\ LimiterIdle
  /\ ScrapeIdle
  /\ ScoringIdle
  /\ BackgroundIdle

NextEngage ==
  \/ Senders
  \/ \E m \in 1..Len(messages), name \in
         {"delivered", "open", "click", "bounce", "dropped", "spam_report"} :
       \E ts \in Stamps(m, SendGridKind(name)) : processSendGridEvent(m, name, ts)
  \/ \E m \in 1..Len(messages), name \in
         {"delivered", "opened", "clicked", "bounced", "failed", "complained"} :
       \E ts \in Stamps(m, MailgunKind(name)) : handleMailgunWebhook(m, name, ts)
  \/ \E l \in Leads, s \in Stop : OperatorUpdate(l, s)

SpecEngage == InitEngage /\ [][NextEngage]_vars

-----------------------------------------------------------------------------
(* Queues: retries, timeouts and the failed history of each queue *)

\* One addJob call of the source per queue
Producer(q) ==
  CASE q = "scraping" -> [type |-> "daily-scraping", priority |-> 7]
    [] q = "scoring" -> [type |-> "score-lead", priority |-> 8]
    [] q = "email" -> [type |-> "send-campaign-email", priority |-> 5]
    [] q = "campaign" -> [type |-> "hot-leads-campaign", priority |-> 9]
    [] q = "followup" -> [type |-> "followup-1", priority |-> 6]
    [] OTHER -> [type |-> "enrich-engaged-lead", priority |-> 7]

\* The queues share nothing, so a run follows the jobs of one queue
Enqueue(q, delay) ==
  /\ UNCHANGED notLifecycle
  /\ Len(jobs) < MaxQueued
  /\ \A j \in JobIds : jobs[j].queue = q
  /\ jobs' = addJob(jobs, q, Producer(q).type, 1, "none",
                    Producer(q).priority, delay)
  /\ UNCHANGED <<threshold, email, status, lead_score, messages, failedHist,
                 now, notes, nEvents, nOps, nScored, nBursts>>

\* the handler of the job returns
JobCompletes(j) ==
  /\ UNCHANGED notLifecycle
  /\ jobs[j].state = "active"
  /\ jobs' = CompleteJob(jobs, j, "success")
  /\ UNCHANGED <<threshold, email, status, lead_score, messages, failedHist,
                 now, notes, nEvents, nOps, nScored, nBursts>>

\* the handler of the job throws
JobThrows(j) ==
  /\ UNCHANGED notLifecycle
  /\ jobs[j].state = "active"
  /\ LET r == FailJob(jobs, failedHist, j, "error")
     IN /\ jobs' = r.jobs
        /\ failedHist' = r.failedHist
  /\ UNCHANGED <<threshold, email, status, lead_score, messages, now, notes,
                 nEvents, nOps, nScored, nBursts>>

\* the execution of the job exceeds the timeout of its queue
JobTimesOut(j) ==
  /\ UNCHANGED notLifecycle
  /\ jobs[j].state = "active"
  /\ Timeout(jobs[j].queue) > 0
  /\ LET r == FailJob(jobs, failedHist, j, "timeout")
     IN /\ jobs' = r.jobs
        /\ failedHist' = r.failedHist
  /\ UNCHANGED <<threshold, email, status, lead_score, messages, now, notes,
                 nEvents, nOps, nScored, nBursts>>

\* n further jobs of the queue, not followed one by one, fail for good
Burst(q, n) ==
  /\ UNCHANGED notLifecycle
  /\ nBursts < MaxBursts
  /\ \E j \in JobIds : jobs[j].queue = q
  /\ nBursts' = nBursts + 1
  /\ LET r == Evict([jobs |-> jobs,
                     failedHist |-> [failedHist EXCEPT
                                       ![q] = Append(@, [id |-> 0, n |-> n, at |-> now])]], q)
     IN /\ jobs' = r.jobs
        /\ failedHist' = r.failedHist
  /\ UNCHANGED <<threshold, email, status, lead_score, messages, now, notes,
                 nEvents, nOps, nScored>>

\* A day passes.  No job stays active for a day (every queue has a timeout
\* of minutes), and the clock starts with the first job that finishes.
Tick ==
  /\ UNCHANGED notLifecycle
  /\ now < MaxDay
  /\ \A j \in JobIds : jobs[j].state # "active"
  /\ \E q \in Queues : failedHist[q] # <<>>
        \/ \E j \in JobIds : jobs[j].state \in {"completed", "failed", "removed"}
  /\ now' = now + 1
  /\ UNCHANGED <<threshold, email, status, lead_score, messages, jobs,
                 failedHist, notes, nEvents, nOps, nScored, nBursts>>

Expired(at) == (now - at) * DayMs >= 7 * DayMs

RECURSIVE Keep(_)
Keep(h) ==
  IF h = <<>> THEN <<>>
  ELSE IF Expired(Head(h).at) THEN Keep(Tail(h))
  ELSE <<Head(h)>> \o Keep(Tail(h))

\* cleanQueue of every queue: completed and failed jobs older than the grace
runQueueCleanup ==
  /\ UNCHANGED notLifecycle
  /\ \E j \in JobIds :
       jobs[j].state \in {"completed", "failed"} /\ Expired(jobs[j].finishedOn)
  /\ jobs' = [j \in DOMAIN jobs |->
               IF /\ jobs[j].state \in {"completed", "failed"}
                  /\ Expired(jobs[j].finishedOn)
               THEN [jobs[j] EXCEPT !.state = "removed"] ELSE jobs[j]]
  /\ failedHist' = [q \in Queues |-> Keep(failedHist[q])]
  /\ UNCHANGED <<threshold, email, status, lead_score, messages, now, notes,
                 nEvents, nOps, nScored, nBursts>>

\* cancelScheduledFollowUps of a lead that clicked runs in the web process
\* while the workers run the jobs: first the getDelayed() snapshot of the
\* follow-up queue, of which the jobs of the lead are the ones to remove
CancelSnapshot(l) ==
  /\ UNCHANGED notLifecycle
  /\ \A j \in JobIds : ~jobs[j].snap
  /\ \E j \in JobIds : jobs[j].queue = "followup" /\ jobs[j].state = "delayed"
                       /\ jobs[j].lead = l
  /\ jobs' = [j \in DOMAIN jobs |->
               IF /\ jobs[j].queue = "followup" /\ jobs[j].state = "delayed"
                  /\ jobs[j].lead = l
               THEN [jobs[j] EXCEPT !.snap = TRUE] ELSE jobs[j]]
  /\ UNCHANGED <<threshold, email, status, lead_score, messages, failedHist,
                 now, notes, nEvents, nOps, nScored, nBursts>>

\* the failed set without the job
RECURSIVE Without(_, _)
Without(h, j) ==
  IF h = <<>> THEN <<>>
  ELSE IF Head(h).id = j THEN Tail(h)
  ELSE <<Head(h)>> \o Without(Tail(h), j)

\* then job.remove() of the next job of the snapshot: Bull removes a job
\* that no worker holds from whatever set it is in by now
CancelRemove(j) ==
  /\ UNCHANGED notLifecycle
  /\ jobs[j].snap
  /\ \A k \in 1..(j - 1) : ~jobs[k].snap
  /\ jobs[j].state # "active"
  /\ jobs' = [jobs EXCEPT ![j].snap = FALSE, ![j].state = "removed"]
  /\ failedHist' = [failedHist EXCEPT ![jobs[j].queue] = Without(@, j)]
  /\ UNCHANGED <<threshold, email, status, lead_score, messages, now, notes,
                 nEvents, nOps, nScored, nBursts>>

\* job.remove() of a job a worker holds throws: the catch ends the loop
CancelAborts(j) ==
  /\ UNCHANGED notLifecycle
  /\ jobs[j].snap
  /\ \A k \in 1..(j - 1) : ~jobs[k].snap
  /\ jobs[j].state = "active"
  /\ jobs' = [k \in DOMAIN jobs |-> [jobs[k] EXCEPT !.snap = FALSE]]
  /\ UNCHANGED <<threshold, email, status, lead_score, messages, failedHist,
                 now, notes, nEvents, nOps, nScored, nBursts>>

InitQueue ==
  /\ threshold = HotGate
  /\ email = [l \in Leads |-> TRUE]
  /\ status = [l \in Leads |-> "new"]
  /\ lead_score = [l \in Leads |-> NULL]
  /\ messages = <<>>
  /\ jobs = <<>>
  /\ failedHist = [q \in Queues |-> <<>>]
  /\ now = 0
  /\ notes = [l \in Leads |-> 0]
  /\ nEvents = 0
  /\ nOps = 0
  /\ nScored = [l \in Leads |-> 0]
  /\ nBursts = 0
  /\ CronIdle
  /\ LimiterIdle
  /\ ScrapeIdle
  /\ ScoringIdle
  /\ BackgroundIdle

Running ==
  \/ \E j \in JobIds : Promote(j)
  \/ \E j \in JobIds : Dequeue(j)
  \/ \E j \in JobIds : JobCompletes(j)
  \/ \E j \in JobIds : JobThrows(j)
  \/ \E j \in JobIds : JobTimesOut(j)
  \/ \E l \in Leads : CancelSnapshot(l)
  \/ \E j \in JobIds : CancelRemove(j)
  \/ \E j \in JobIds : CancelAborts(j)

NextQueue ==
  \/ \E q \in Queues : \E delay \in (IF q = "email" THEN {0, 30000} ELSE {0}) : Enqueue(q, delay)
  \/ Running

SpecQueue == InitQueue /\ [][NextQueue]_vars

-----------------------------------------------------------------------------
(* Retention: the failed history of a queue over the days *)

EnqueueKept(q, delay) ==
  /\ Len(jobs) < MaxKept
  /\ Enqueue(q, delay)

NextRetain ==
  \/ \E q \in Queues : \E delay \in (IF q = "email" THEN {0, 30000} ELSE {0}) : EnqueueKept(q, delay)
  \/ Running
  \/ \E q \in Queues, n \in {RemoveOnFail - 1, RemoveOnFail} : Burst(q, n)
  \/ Tick
  \/ runQueueCleanup

SpecRetain == InitQueue /\ [][NextRetain]_vars

-----------------------------------------------------------------------------
(* The scoring sweep: runScoringJob and the batch it queues. One lead is
   tracked; the other leads without a score are counted *)

\* .limit(100) of the select of runScoringJob
BatchLimit == 100

\* runScoringJob: select the ids of at most BatchLimit leads whose lead_score
\* is null and queue them as one batch. The select has no ORDER BY: which
\* rows it returns when more match is up to the database. The sweep runs
\* every 4 hours, the batch before it has been worked off
ScoringSweep ==
  LET total == unscored + (IF trackedNull THEN 1 ELSE 0)
      size == Min(BatchLimit, total)
  IN /\ batch = <<>>
     /\ total > 0
     /\ \E tracked \in BOOLEAN :
          LET others == size - (IF tracked THEN 1 ELSE 0)
          IN /\ tracked => trackedNull
             /\ others <= unscored
             /\ \E fails \in 0..Min(broken, others) :
                  /\ others - fails <= unscored - broken
                  /\ batch' = <<[others |-> others, fails |-> fails,
                                 tracked |-> tracked]>>
     /\ UNCHANGED <<unscored, broken, trackedNull, scrapeRuns,
                   campaignRun, emailJobs, contacted>>
     /\ UNCHANGED <<lifecycle, cron, limiter, scrape, scoring>>

\* scoreBatchLeads: score each lead of the batch in turn; a lead whose
\* scoring throws is logged and left as it is, the job completes
scoreBatchLeads ==
  /\ batch # <<>>
  /\ unscored' = unscored - (batch[1].others - batch[1].fails)
  /\ trackedNull' = (trackedNull /\ ~batch[1].tracked)
  /\ batch' = <<>>
  /\ UNCHANGED <<broken, scrapeRuns, campaignRun, emailJobs, contacted>>
  /\ UNCHANGED <<lifecycle, cron, limiter, scrape, scoring>>

InitSweep ==
  /\ threshold = HotGate
  /\ email = [l \in Leads |-> TRUE]
  /\ status = [l \in Leads |-> "new"]
  /\ lead_score = [l \in Leads |-> NULL]
  /\ messages = <<>>
  /\ jobs = <<>>
  /\ failedHist = [q \in Queues |-> <<>>]
  /\ now = 0
  /\ notes = [l \in Leads |-> 0]
  /\ nEvents = 0
  /\ nOps = 0
  /\ nScored = [l \in Leads |-> 0]
  /\ nBursts = 0
  /\ CronIdle
  /\ LimiterIdle
  /\ ScrapeIdle
  /\ ScoringIdle
  /\ unscored \in 0..MaxPool
  /\ broken \in 0..unscored
  /\ trackedNull = TRUE
  /\ batch = <<>>
  /\ scrapeRuns = [j \in 1..NumScrapes |-> [status |-> "none", pc |-> "none", via |-> ""]]
  /\ campaignRun = [status |-> "draft", state |-> "none", attemptsMade |-> 0]
  /\ emailJobs = <<>>
  /\ contacted = {}

NextSweep ==
  \/ ScoringSweep
  \/ scoreBatchLeads

SpecSweep == InitSweep /\ [][NextSweep]_vars

\* the scoring trigger keeps firing and the scoring worker keeps running
FairSweep ==
  /\ SpecSweep
  /\ WF_vars(ScoringSweep)
  /\ WF_vars(scoreBatchLeads)

-----------------------------------------------------------------------------
(* Scrapes started and cancelled by operators: the two scraping controllers *)

\* startScraping and startScrapingJob: insert the row as pending and start
\* the scrape in the background, at once (via "controller") or in a
\* setImmediate callback (via "api")
startScraping(j, via) ==
  /\ scrapeRuns[j].status = "none"
  /\ scrapeRuns' = [scrapeRuns EXCEPT ![j] =
                      [status |-> "pending",
                       pc |-> IF via = "api" THEN "started" ELSE "scraping",
                       via |-> via]]
  /\ UNCHANGED <<unscored, broken, trackedNull, batch,
                 campaignRun, emailJobs, contacted>>
  /\ UNCHANGED <<lifecycle, cron, limiter, scrape, scoring>>

\* the setImmediate callback of startScrapingJob up to runCampaign: the
\* row of the job is updated to running
BackgroundStarts(j) ==
  /\ scrapeRuns[j].pc = "started"
  /\ scrapeRuns' = [scrapeRuns EXCEPT ![j].status = "running",
                                      ![j].pc = "scraping"]
  /\ UNCHANGED <<unscored, broken, trackedNull, batch,
                 campaignRun, emailJobs, contacted>>
  /\ UNCHANGED <<lifecycle, cron, limiter, scrape, scoring>>

\* runCampaign resolves or rejects: the row of the job is updated to
\* completed or to failed
BackgroundSettles(j, outcome) ==
  /\ scrapeRuns[j].pc = "scraping"
  /\ scrapeRuns' = [scrapeRuns EXCEPT ![j].status = outcome, ![j].pc = "done"]
  /\ UNCHANGED <<unscored, broken, trackedNull, batch,
                 campaignRun, emailJobs, contacted>>
  /\ UNCHANGED <<lifecycle, cron, limiter, scrape, scoring>>

\* cancelScraping and cancelScrapingJob: the job leaves the activeJobs map
\* and its row is updated to cancelled; the scrape itself is not stopped
\* (with no row of that id, or a row already cancelled, nothing changes)
cancelScraping(j) ==
  /\ scrapeRuns[j].status \notin {"none", "cancelled"}
  /\ scrapeRuns' = [scrapeRuns EXCEPT ![j].status = "cancelled"]
  /\ UNCHANGED <<unscored, broken, trackedNull, batch,
                 campaignRun, emailJobs, contacted>>
  /\ UNCHANGED <<lifecycle, cron, limiter, scrape, scoring>>

InitCancel ==
  /\ threshold = HotGate
  /\ email = [l \in Leads |-> TRUE]
  /\ status = [l \in Leads |-> "new"]
  /\ lead_score = [l \in Leads |-> NULL]
  /\ messages = <<>>
  /\ jobs = <<>>
  /\ failedHist = [q \in Queues |-> <<>>]
  /\ now = 0
  /\ notes = [l \in Leads |-> 0]
  /\ nEvents = 0
  /\ nOps = 0
  /\ nScored = [l \in Leads |-> 0]
  /\ nBursts = 0
  /\ CronIdle
  /\ LimiterIdle
  /\ ScrapeIdle
  /\ ScoringIdle
  /\ BackgroundIdle

NextCancel ==
  \/ \E j \in 1..NumScrapes, via \in {"controller", "api"} : startScraping(j, via)
  \/ \E j \in 1..NumScrapes : BackgroundStarts(j)
  \/ \E j \in 1..NumScrapes, outcome \in {"completed", "failed"} :
       BackgroundSettles(j, outcome)
  \/ \E j \in 1..NumScrapes : cancelScraping(j)

SpecCancel == InitCancel /\ [][NextCancel]_vars

-----------------------------------------------------------------------------
(* The campaign processor: one campaign job, its retries, its emails *)

\* the values the CHECK constraint of campaigns.status lets through
CampaignStatuses == {"draft", "scheduled", "active", "paused", "completed"}

\* updateCampaignStatus: an update the database rejects is logged, the row
\* stays as it was and the caller goes on
updateCampaignStatus(current, new) ==
  IF new \in CampaignStatuses THEN new ELSE current

\* the leads of the campaign from lead l on, those contacted left out
RECURSIVE targetLeads(_)
targetLeads(l) ==
  IF l > NumTargets THEN <<>>
  ELSE (IF l \in contacted THEN <<>> ELSE <<l>>) \o targetLeads(l + 1)

\* one attempt of the campaign job: the campaign is set active, the target
\* leads are fetched and an email job is queued for each in turn. Either
\* all are queued and the campaign is set completed, or the fetch or the
\* addJob after the first k throws: the campaign is set failed and the error is thrown
\* again, which makes Bull retry the job while attempts are left
processCampaign(k, throws) ==
  LET leadsFound == targetLeads(1)
      queued == [i \in 1..k |-> [lead |-> leadsFound[i], sent |-> FALSE]]
      active == updateCampaignStatus(campaignRun.status, "active")
      made == campaignRun.attemptsMade + 1
  IN /\ campaignRun.state = "waiting"
     /\ k <= Len(leadsFound)
     /\ throws => k < Len(leadsFound) \/ leadsFound = <<>>
     /\ ~throws => k = Len(leadsFound)
     /\ emailJobs' = emailJobs \o queued
     /\ campaignRun' =
          IF throws
          THEN [status |-> updateCampaignStatus(active, "failed"),
                state |-> IF made >= Attempts("campaign") THEN "failed"
                          ELSE "waiting",
                attemptsMade |-> made]
          ELSE [status |-> updateCampaignStatus(active, "completed"),
                state |-> "completed", attemptsMade |-> made]
     /\ UNCHANGED contacted
     /\ UNCHANGED <<unscored, broken, trackedNull, batch, scrapeRuns>>
     /\ UNCHANGED <<lifecycle, cron, limiter, scrape, scoring>>

\* the email processor sends a campaign email: the lead becomes contacted
sendCampaignEmail(i) ==
  /\ ~emailJobs[i].sent
  /\ emailJobs' = [emailJobs EXCEPT ![i].sent = TRUE]
  /\ contacted' = contacted \cup {emailJobs[i].lead}
  /\ UNCHANGED campaignRun
  /\ UNCHANGED <<unscored, broken, trackedNull, batch, scrapeRuns>>
  /\ UNCHANGED <<lifecycle, cron, limiter, scrape, scoring>>

InitCampaign ==
  /\ threshold = HotGate
  /\ email = [l \in Leads |-> TRUE]
  /\ status = [l \in Leads |-> "new"]
  /\ lead_score = [l \in Leads |-> NULL]
  /\ messages = <<>>
  /\ jobs = <<>>
  /\ failedHist = [q \in Queues |-> <<>>]
  /\ now = 0
  /\ notes = [l \in Leads |-> 0]
  /\ nEvents = 0
  /\ nOps = 0
  /\ nScored = [l \in Leads |-> 0]
  /\ nBursts = 0
  /\ CronIdle
  /\ LimiterIdle
  /\ ScrapeIdle
  /\ ScoringIdle
  /\ unscored = 0
  /\ broken = 0
  /\ trackedNull = FALSE
  /\ batch = <<>>
  /\ scrapeRuns = [j \in 1..NumScrapes |-> [status |-> "none", pc |-> "none", via |-> ""]]
  /\ campaignRun \in [status : {"draft", "scheduled"}, state : {"waiting"},
                      attemptsMade : {0}]
  /\ emailJobs = <<>>
  /\ contacted \in SUBSET (1..NumTargets)

NextCampaign ==
  \/ \E k \in 0..NumTargets, throws \in BOOLEAN : processCampaign(k, throws)
  \/ \E i \in DOMAIN emailJobs : sendCampaignEmail(i)

SpecCampaign == InitCampaign /\ [][NextCampaign]_vars

-----------------------------------------------------------------------------
(* Properties *)

\* follow-up jobs of the lead still in the delayed set or the wait list
PendingFollowUps(l) ==
  {j \in JobIds : jobs[j].queue = "followup" /\ jobs[j].lead = l
                  /\ jobs[j].state \in {"delayed", "waiting"}}

\* the jobs added by the step
NewJobs == SubSeq(jobs', Len(jobs) + 1, Len(jobs'))

\* the step processes a webhook delivery
WebhookStep == nEvents' = nEvents + 1

\* C1: once a clicked event of a lead has been processed, no follow-up job of
\* that lead queues a follow-up email or records a follow-up attempt
C1_NoFollowUpAfterClick ==
  [][LET FollowUpEmails(l) ==
           {j \in JobIds : /\ jobs[j].queue = "email" /\ jobs[j].lead = l
                           /\ jobs[j].type = "send-followup-email"}
     IN \A l \in Leads :
          Clicks(l) # {} =>
            /\ FollowUpEmails(l)' = FollowUpEmails(l)
            /\ notes'[l] = notes[l]]_vars

\* C2: a bounce or complaint processed while the three follow-up jobs of an
\* auto-contacted lead are all still delayed leaves the lead lost and no
\* follow-up job of the lead pending
C2_BounceCancelsFollowUps ==
  [][\A l \in Leads :
       (/\ WebhookStep
        /\ \E m \in 1..Len(messages) :
             /\ messages[m].lead_id = l
             /\ messages[m].status \notin {"bounced", "failed"}
             /\ messages'[m].status \in {"bounced", "failed"}
        /\ Cardinality(PendingFollowUps(l)) = Len(followUpSchedule)
        /\ \A j \in PendingFollowUps(l) : jobs[j].state = "delayed")
       => /\ status'[l] = "lost"
          /\ PendingFollowUps(l)' = {}]_vars

\* C3: processing again an event already processed (same message, kind and
\* timestamp) changes neither score nor status and adds no job
C3_ReplayIdempotent ==
  [][(WebhookStep /\ messages' = messages)
       => /\ lead_score' = lead_score
          /\ status' = status
          /\ NewJobs = <<>>]_vars

\* C4: no automated step moves a lead from qualified, converted or lost back
\* to new or contacted
C4_StatusMonotonic ==
  [][\A l \in Leads :
       (status[l] \in Stop /\ nOps' = nOps)
       => status'[l] \notin {"new", "contacted"}]_vars

\* C5: processing the first-ever opened event of a lead sets its status to
\* qualified, queues an enrichment job for it and raises the score by
\* OpenPoints, capped at 100
C5_FirstOpenQualifies ==
  [][\A l \in Leads :
       (WebhookStep /\ Opens(l) = {} /\ Opens(l)' # {})
       => /\ status'[l] = "qualified"
          /\ Cardinality({j \in DOMAIN jobs' : /\ jobs'[j].queue = "enrichment"
                                               /\ jobs'[j].lead = l})
             = Cardinality({j \in JobIds : /\ jobs[j].queue = "enrichment"
                                           /\ jobs[j].lead = l}) + 1
          /\ lead_score'[l] =
               Min((IF lead_score[l] = NULL THEN 0 ELSE lead_score[l]) + OpenPoints,
                   100)]_vars

\* C6: a scoring that completes with a total at or above the configured
\* threshold for a lead without messages adds the intro email job and the
\* three follow-up jobs, any other scoring adds no job
C6_AutoContactAtThreshold ==
  [][LET AutoContactJobs(l) ==
           <<NewJob("email", "send-intro-email", l, "none", 10, 5 * 60 * 1000),
             NewJob("followup", "followup-1", l, "followup-1", 5, 3 * DayMs),
             NewJob("followup", "followup-2", l, "followup-2", 5, 7 * DayMs),
             NewJob("followup", "case-study", l, "case-study", 5, 14 * DayMs)>>
     IN \A l \in Leads :
          nScored'[l] = nScored[l] + 1
          => NewJobs = IF lead_score'[l] >= threshold /\ existingMessages(l) = {}
                       THEN AutoContactJobs(l) ELSE <<>>]_vars

\* C7: a follow-up job that runs while the status of its lead is qualified,
\* converted or lost ends completed as skipped, adds no job and records no
\* follow-up attempt
C7_StoppedLeadSkipped ==
  [][\A j \in JobIds :
       (/\ jobs[j].queue = "followup" /\ jobs[j].state = "active"
        /\ jobs[j].inStop /\ jobs'[j].state # "active")
       => /\ jobs'[j].state = "completed" /\ jobs'[j].pc = "skipped"
          /\ NewJobs = <<>>
          /\ notes' = notes]_vars

\* the attempts the documentation gives each queue
ClaimedAttempts(q) ==
  IF q = "scraping" THEN 2 ELSE IF q = "email" THEN 5 ELSE 3

\* the entries of the failed set of its queue that hold the job
Kept(j) ==
  {i \in 1..Len(failedHist[jobs[j].queue]) :
     failedHist[jobs[j].queue][i].id = j}

\* the step ends an execution of the job with a failure
FailStep(j) ==
  /\ jobs[j].state = "active"
  /\ jobs'[j].state \notin {"active", "completed"}

C9_ScrapingTimeoutRetried ==
  [][\A j \in JobIds :
       (/\ jobs[j].queue = "scraping" /\ FailStep(j)
        /\ jobs[j].attemptsMade = 0 /\ jobs'[j].failedReason = "timeout")
       => /\ jobs'[j].attemptsMade = 1
          /\ jobs'[j].state = "delayed"
          /\ jobs'[j].delay = 5000
          /\ \A k \in JobIds \ {j} : jobs'[k] = jobs[k]
          /\ \A k \in JobIds : Picks(k)' => CanDequeue(k)']_vars

\* a scraping job waits for its retry after a timeout while another
\* scraping job is running
C9_Witness ==
  \E j, k \in JobIds :
    /\ jobs[j].queue = "scraping" /\ jobs[j].state = "delayed"
    /\ jobs[j].attemptsMade = 1 /\ jobs[j].failedReason = "timeout"
    /\ jobs[k].queue = "scraping" /\ jobs[k].state = "active"

\* C10: a failed job is in the failed set of its queue; it leaves it only
\* evicted as the oldest of a failed set filled to 500, or cleaned up once
\* it has been there for 7 days
C10_FailedJobsKept ==
  /\ [](\A j \in JobIds : jobs[j].state = "failed" => Cardinality(Kept(j)) = 1)
  /\ [][\A j \in JobIds :
          (jobs[j].state = "failed" /\ jobs'[j].state # "failed")
          => /\ jobs'[j].state = "removed"
             /\ \/ /\ Size(failedHist'[jobs[j].queue]) = 500
                   /\ \A i \in Kept(j) : \A o \in 1..(i - 1) :
                        failedHist[jobs[j].queue][o].id # 0
                        => jobs'[failedHist[jobs[j].queue][o].id].state = "removed"
                   /\ now' = now
                \/ /\ now - jobs[j].finishedOn >= 7
                   /\ now' = now
                   /\ nBursts' = nBursts]_vars

\* C11: in one interval of its schedule a trigger queues its job at most
\* once, however many instances fire it
C11_TriggerOncePerInterval ==
  \A t \in Triggers : cronQueued[t] <= 1

\* C12: in a window of a service no more callers are let through than its
\* limit, and a caller proceeds no sooner than the minimum delay after the
\* one before it
C12_WindowAndSpacing ==
  /\ [](\A s \in Services : windows[s].granted <= Limit(s))
  /\ [][\A c \in 1..NumCallers :
          (/\ callers[c].pc = "delay" /\ callers'[c].pc = "idle"
           /\ windows[callers[c].service].proceeded # NULL)
          => clock - windows[callers[c].service].proceeded >= MinDelay]_vars

\* C13: the counter of a service is the number of callers let through in
\* its running window, also with several callers inside checkLimit
C13_CountExact ==
  \A s \in Services : limits[s].requests = windows[s].granted

-----------------------------------------------------------------------------
(* Properties of the scrape orchestration *)

\* the identity of a business: name and address in lower case, without
\* punctuation and whitespace
NormKey(lead) ==
  LET Normalize(str) ==
        SelectSeq(toLowerCase(str), LAMBDA ch : ch \notin {" ", ".", ",", "-"})
  IN <<Normalize(lead.name), Normalize(lead.address)>>

\* C14: the output of an orchestration holds exactly one record per
\* normalized identity key (lower case, punctuation and whitespace removed)
\* of the candidates returned, and no two different keys are merged into one
C14_OnePerNormalizedKey ==
  stage = "returned" =>
    /\ \A i, j \in DOMAIN leads : i # j => NormKey(leads[i]) # NormKey(leads[j])
    /\ {NormKey(leads[i]) : i \in DOMAIN leads}
       = {NormKey(Fulfilled(1)[i]) : i \in DOMAIN Fulfilled(1)}

\* C15: of a business returned by several adapters the record that survives
\* is the one of the adapter declared first, fields untouched, whatever the
\* order in which the adapters completed
C15_FirstDeclaredWins ==
  LET FirstDeclared(k) ==
        Fulfilled(1)[CHOOSE i \in DOMAIN Fulfilled(1) :
                       /\ NormKey(Fulfilled(1)[i]) = k
                       /\ \A j \in 1..(i - 1) : NormKey(Fulfilled(1)[j]) # k]
  IN stage = "returned" =>
       \A i \in DOMAIN leads :
         /\ leads[i].source = FirstDeclared(NormKey(leads[i])).source
         /\ leads[i].name = FirstDeclared(NormKey(leads[i])).name
         /\ leads[i].address = FirstDeclared(NormKey(leads[i])).address

\* C16: a failing adapter never aborts the orchestration: it contributes
\* nothing, and every candidate of the other adapters is merged,
\* deduplicated, enriched and saved
C16_AdapterFailureIsolated ==
  /\ stage # "thrown"
  /\ stage = "returned" =>
       /\ {DedupKey(leads[i]) : i \in DOMAIN leads}
          = {DedupKey(Fulfilled(1)[i]) : i \in DOMAIN Fulfilled(1)}
       /\ \A i, j \in DOMAIN leads : i # j => DedupKey(leads[i]) # DedupKey(leads[j])
       /\ \A i \in DOMAIN leads : leads[i].enriched
       /\ dbUp => \A i \in DOMAIN leads :
                    \E r \in DOMAIN store : store[r] = leadData(leads[i])

\* an orchestration returned with one adapter rejected and the candidates
\* of another one saved
C16_Witness ==
  /\ stage = "returned"
  /\ dbUp
  /\ \E a \in AdapterSet : results[a].state = "rejected"
  /\ \E a \in AdapterSet : results[a].value # <<>>
  /\ leads # <<>>
  /\ store # <<>>

\* C18: an orchestration never returns more than maxResults leads, and when
\* more were merged it keeps the first maxResults in declared order
C18_AtMostMaxResults ==
  stage = "returned" =>
    /\ Len(leads) <= maxResults
    /\ LET merged == enrichLeads(deduplicateLeads(Fulfilled(1)))
       IN leads = SubSeq(merged, 1, IF Len(merged) < maxResults
                                    THEN Len(merged) ELSE maxResults)

\* C17: whatever the interleaving of the saves, the store holds at most one
\* row per identity key (company name, address)
C17_OneRowPerIdentity ==
  \A i, j \in DOMAIN store :
    i # j => \/ store[i].company_name # store[j].company_name
             \/ store[i].address # store[j].address

-----------------------------------------------------------------------------
(* Properties of the scoring engine *)

\* C19: for every lead record, enriched fully, partly or not at all, each of
\* the seven component scores lies in 0..100, the weights sum to 100, and the
\* rounded weighted total lies in 0..100
C19_ScoresInRange ==
  /\ Weights.websiteQuality + Weights.seoRanking + Weights.adPresence
     + Weights.reviewScore + Weights.socialPresence + Weights.companySize
     + Weights.marketCompetitiveness = 100
  /\ Cardinality(DOMAIN Weights) = 7
  /\ scoreResult # <<>> =>
       /\ \A k \in DOMAIN Weights : scoreResult[1].componentScores[k] \in 0..100
       /\ scoreResult[1].totalScore \in 0..100

\* a large company with more than 100 employees was scored: both employee
\* adjustments met the cap
C19_Witness ==
  /\ scoreResult # <<>>
  /\ scoredLead.estimated_size = "large"
  /\ scoredLead.employee_count > 100
  /\ scoreResult[1].componentScores.companySize = 100

\* C20: when engagement events and scoring completions update the same lead
\* at the same time the record reflects every one of them: lead_score is
\* what the writes give when each is applied to the value current at its time
C20_NoLostUpdate == \A l \in Leads : lead_score[l] = serial[l]

\* C21: for every total in 0..100 the tier is Hot Lead exactly from 80 up,
\* Warm Lead in 60..79, Cold Lead in 40..59 and Low Priority below, and that
\* is the tier calculateScore returns with its total
C21_TierByTotal ==
  /\ \A t \in 0..100 :
       /\ determineLeadTier(t) = "Hot Lead" <=> t >= 80
       /\ determineLeadTier(t) = "Warm Lead" <=> t \in 60..79
       /\ determineLeadTier(t) = "Cold Lead" <=> t \in 40..59
       /\ determineLeadTier(t) = "Low Priority" <=> t < 40
  /\ scoreResult # <<>> =>
       /\ scoreResult[1].tier = "Hot Lead" <=> scoreResult[1].totalScore >= 80
       /\ scoreResult[1].tier = "Warm Lead" <=> scoreResult[1].totalScore \in 60..79
       /\ scoreResult[1].tier = "Cold Lead" <=> scoreResult[1].totalScore \in 40..59
       /\ scoreResult[1].tier = "Low Priority" <=> scoreResult[1].totalScore < 40

\* a lead was scored exactly 80 and came out a Hot Lead
C21_Witness ==
  /\ scoreResult # <<>>
  /\ scoreResult[1].totalScore = 80
  /\ scoreResult[1].tier = "Hot Lead"

\* C23: a component whose enrichment data is missing scores what it scores
\* when the signal is known to be absent, the most the component can give:
\* no lead record scores higher on any component than the bare record does
C23_MissingIsMaximum ==
  scoreResult # <<>> =>
    \A k \in DOMAIN Weights :
      scoreResult[1].componentScores[k]
        <= calculateScore(BareLead).componentScores[k]

\* C24: an email job attempt whose send fails leaves the lifecycle state of
\* its lead as it was: the status is unchanged and a lead that was eligible
\* for the auto-contact check (no message recorded for it) still is
C24_FailedSendLeavesLead ==
  [][\A l \in Leads :
       (/\ Len(messages') = Len(messages) + 1
        /\ messages'[Len(messages')].status = "failed"
        /\ messages'[Len(messages')].lead_id = l)
       => /\ status'[l] = status[l]
          /\ existingMessages(l) = {} => existingMessages(l)' = {}]_vars

\* C25: in the email queue a waiting auto-triggered intro email is picked
\* before the waiting campaign and follow-up emails, and among waiting jobs
\* of equal priority the one enqueued first is picked first
C25_IntroEmailFirst ==
  [][\A j, k \in JobIds :
       (/\ j # k
        /\ jobs[j].queue = "email" /\ jobs[j].state = "waiting"
        /\ jobs[k].queue = "email" /\ jobs[k].state = "waiting"
        /\ jobs'[k].state = "active")
       => /\ ~ (/\ jobs[j].type = "send-intro-email"
                /\ jobs[k].type \in {"send-campaign-email", "send-followup-email"})
          /\ jobs[j].priority = jobs[k].priority => k < j]_vars

\* C27: for each lead every step of the follow-up sequence is queued at most
\* once, so a lead that never engages gets a bounded number of follow-ups
C27_FollowUpStepOnce ==
  \A l \in Leads : \A k \in DOMAIN followUpSchedule :
    Cardinality({j \in JobIds : /\ jobs[j].queue = "followup"
                                /\ jobs[j].lead = l
                                /\ jobs[j].sequence = followUpSchedule[k].type})
      <= 1

\* C28: automation queues the intro email of a lead at most once, and its
\* follow-up sequence at most once, however often the lead is scored at or
\* above the threshold
C28_IntroEmailOnce ==
  \A l \in Leads :
    /\ Cardinality({j \in JobIds : /\ jobs[j].type = "send-intro-email"
                                   /\ jobs[j].lead = l}) <= 1
    /\ Cardinality({j \in JobIds : /\ jobs[j].queue = "followup"
                                   /\ jobs[j].lead = l
                                   /\ jobs[j].type = "followup-1"}) <= 1

\* C22: when a scrape has returned, the scoring jobs it queued are one for
\* each row the scrape persisted, each carrying the id of its row, and none
\* for a candidate that was not persisted
C22_ScoringJobPerPersistedLead ==
  stage = "returned" =>
    LET queued == {j \in JobIds : jobs[j].queue = "scoring"}
    IN /\ \A j \in queued : jobs[j].lead \in DOMAIN store
       /\ \A i \in DOMAIN store :
            Cardinality({j \in queued : jobs[j].lead = i}) = 1

\* C26: a persisted lead whose score is null is eventually scored, as long as
\* the scoring trigger keeps firing and the scoring worker keeps running
C26_UnscoredEventuallyScored == trackedNull ~> ~trackedNull

\* C29: the row of a scraping job an operator has cancelled stays cancelled,
\* whatever the scrape running in the background for it does afterwards
C29_CancelledStaysCancelled ==
  [][\A j \in 1..NumScrapes :
       scrapeRuns[j].status = "cancelled" => scrapeRuns'[j].status = "cancelled"]_vars

\* C30: however often the campaign job is retried no lead has a second email
\* job of the campaign, and the row of a campaign whose job has failed does
\* not stay active
C30_RetryQueuesNoDuplicate ==
  /\ \A l \in 1..NumTargets :
       Cardinality({i \in DOMAIN emailJobs : emailJobs[i].lead = l}) <= 1
  /\ campaignRun.state = "failed" => campaignRun.status # "active"

====
